---- MODULE Spec2Model ----
(***************************************************************************)
(* zellij-crew: tab-bar plugin instances elect one Leader; the Leader      *)
(* reconciles host tab snapshots into tab records, allocates pool names    *)
(* and broadcasts its state to the Renderers.                              *)
(* Modelled from src/plugin/src/main.rs.                                   *)
(***************************************************************************)
EXTENDS Integers, Sequences, FiniteSets, TLC

\* ------------------------------------------------------------------------
\* Bounds of the model
\* ------------------------------------------------------------------------

\* longest name pool the allocator laws are checked on
MaxPool == 3
\* allocator calls and frees followed in one allocator run
MaxCalls == 3
\* tab ids the host hands out in a reconciliation run
MaxTabs == 3
\* broadcasts waiting in one queue in an election run
MaxQueue == 4
\* latest clock reading in a crew run
MaxNow == 2
\* tell requests in a crew run
MaxMsgs == 2
MaxMalformed == 1
\* tab ids the host hands out in a pool-return run
MaxScenarioTabs == 4
\* tabs open at the same time in a pool-return run
MaxScenarioOpen == 3

\* ------------------------------------------------------------------------
\* Option values: None is the empty tuple, Some(x) the one-element tuple
\* ------------------------------------------------------------------------

None == <<>>

Some(x) == <<x>>

IsSome(o) == o # <<>>

Unwrap(o) == o[1]

Range(s) == {s[k] : k \in 1..Len(s)}

\* ------------------------------------------------------------------------
\* Names
\* ------------------------------------------------------------------------

\* the names a configured pool is drawn from (DEFAULT_NAMES starts with them)
PoolAlphabet == {"alpha", "bravo", "charlie"}

\* host default names of new tabs, by tab_id
DefaultNameOf == <<"Tab #1", "Tab #2", "Tab #3", "Tab #4", "Tab #5", "Tab #6">>

\* tab.name.starts_with("Tab #")
IsDefaultName(n) == n \in Range(DefaultNameOf)

AllocationModes == {"RoundRobin", "FillIn"}

\* ------------------------------------------------------------------------
\* Name allocator (allocate_from_pool): a function of the pool, the used
\* set, the mode and the round-robin cursor (last_assigned_idx, 0-based).
\* The result is [name |-> Option name, idx |-> the cursor afterwards].
\* ------------------------------------------------------------------------

rr_start_idx_from_cursor(cursor) == IF IsSome(cursor) THEN Unwrap(cursor) ELSE 0

\* self.last_assigned_idx.map(|i| i + 1).unwrap_or(0)
rr_start_idx(cursor) == IF IsSome(cursor) THEN Unwrap(cursor) + 1 ELSE 0

RECURSIVE rr_scan(_, _, _, _, _)
\* for offset in 0..pool_len { idx = (start_idx + offset) % pool_len; ... }
rr_scan(names, used, cursor, start_idx, offset) ==
    IF offset >= Len(names)
    THEN [name |-> None, idx |-> cursor]
    ELSE LET idx == (start_idx + offset) % Len(names)
         IN  IF names[idx + 1] \notin used
             THEN [name |-> Some(names[idx + 1]), idx |-> Some(idx)]
             ELSE rr_scan(names, used, cursor, start_idx, offset + 1)

RECURSIVE fill_scan_from(_, _, _, _)
fill_scan_from(names, used, cursor, k) ==
    IF k > Len(names)
    THEN [name |-> None, idx |-> cursor]
    ELSE IF names[k] \notin used
         THEN [name |-> Some(names[k]), idx |-> cursor]
         ELSE fill_scan_from(names, used, cursor, k + 1)

\* a fill-in that prefers the last unused name
fill_in_from_end(names, used, cursor) ==
    LET free == {k \in 1..Len(names) : names[k] \notin used}
    IN  IF free = {}
        THEN [name |-> None, idx |-> cursor]
        ELSE [name |-> Some(names[CHOOSE k \in free : \A j \in free : j <= k]),
              idx |-> cursor]

\* AllocationMode::FillIn => for name in &self.config.names { ... }
allocate_fill_in(names, used, cursor) == fill_scan_from(names, used, cursor, 1)

\* a round-robin that rescans from the front of the pool
allocate_round_robin_from_front(names, used, cursor) ==
    LET r == fill_scan_from(names, used, cursor, 1)
    IN  IF IsSome(r.name)
        THEN [name |-> r.name,
              idx |-> Some(CHOOSE k \in 0..(Len(names) - 1) :
                              /\ names[k + 1] = Unwrap(r.name)
                              /\ \A j \in 0..(k - 1) : names[j + 1] # Unwrap(r.name))]
        ELSE r

\* a round-robin that moves the cursor although nothing is free
allocate_round_robin_moving(names, used, cursor) ==
    LET r == rr_scan(names, used, cursor, rr_start_idx(cursor), 0)
    IN  IF IsSome(r.name) \/ Len(names) = 0
        THEN r
        ELSE [name |-> None, idx |-> Some(rr_start_idx(cursor) % Len(names))]

\* AllocationMode::RoundRobin => { let start_idx = ...; for offset in ... }
allocate_round_robin(names, used, cursor) ==
    rr_scan(names, used, cursor, rr_start_idx(cursor), 0)

\* fn allocate_from_pool: the empty pool returns None before any scan
allocate_from_pool(names, used, mode, cursor) ==
    IF Len(names) = 0
    THEN [name |-> None, idx |-> cursor]
    ELSE IF mode = "RoundRobin"
         THEN allocate_round_robin(names, used, cursor)
         ELSE allocate_fill_in(names, used, cursor)

\* ------------------------------------------------------------------------
\* State
\* ------------------------------------------------------------------------

VARIABLES
    alloc,     \* one allocator run: inputs, the last call and its result
    config,    \* the configuration every instance loads (names, mode, ...)
    st,        \* st[i]: struct State of plugin instance i, and its ghost fields
    chan,      \* chan[<<s, r>>]: broadcasts of s not yet delivered to r
    host       \* the host: open tabs, the next tab_id, rename commands in flight

vars == <<alloc, config, st, chan, host>>

\* ------------------------------------------------------------------------
\* Instances, tabs, records
\* ------------------------------------------------------------------------

\* plugin ids of the instances (get_plugin_ids().plugin_id)
Instances == {5, 9}

\* names a user gives a tab
UserNames == {"Zeta"}

MSG_LEADER_PING == "crew-leader-ping"

MSG_LEADER_ACK == "crew-leader-ack"

MSG_LEADER_CLAIM == "crew-leader-claim"

MSG_LEADER_RESIGN == "crew-leader-resign"

MSG_CREW_STATE == "crew-state"

EmptyMap == [t \in {} |-> None]

\* struct CrewTabState
CrewTabState(tab_id, position, name, pending_rename, user_defined) ==
    [tab_id |-> tab_id, position |-> position, name |-> name,
     pending_rename |-> pending_rename, user_defined |-> user_defined,
     status |-> "Unknown",
     last_msg_to |-> None, last_msg_from |-> None,
     status_updated_at |-> None, last_activity_at |-> None]

\* serde: the fields of a CrewTabState that are not #[serde(skip)]
SerializeTab(ct) ==
    [tab_id |-> ct.tab_id, position |-> ct.position, name |-> ct.name,
     user_defined |-> ct.user_defined, status |-> ct.status]

\* serde: a skipped field is filled with its Default (None)
DeserializeTab(v) ==
    [tab_id |-> v.tab_id, position |-> v.position, name |-> v.name,
     pending_rename |-> None, user_defined |-> v.user_defined,
     status |-> v.status,
     last_msg_to |-> None, last_msg_from |-> None,
     status_updated_at |-> None, last_activity_at |-> None]

\* let state: Vec<&CrewTabState> = self.known_tabs.values().collect(), as JSON
SerializeState(known_tabs) == {SerializeTab(known_tabs[t]) : t \in DOMAIN known_tabs}

\* serde_json::from_value::<Vec<CrewTabState>>(state)
DeserializeState(state) == {DeserializeTab(v) : v \in state}

\* tabs.into_iter().map(|t| (t.tab_id, t)).collect::<HashMap<_, _>>()
CollectByTabId(recs) ==
    [t \in {r.tab_id : r \in recs} |-> CHOOSE r \in recs : r.tab_id = t]

\* what a handler did besides changing the instance: the bytes written to
\* panes, the replies to the CLI, the audit records, the return value, and
\* the instance as the handler found it (pre)
NoFx == [op |-> "none"]

\* struct State after Default::default() and load(); the g_ fields are
\* history kept for the properties, no part of the program's state
InitInstance(phase) ==
    [phase |-> phase,
     is_leader |-> FALSE,
     election_pending |-> FALSE,
     known_tabs |-> EmptyMap,
     last_assigned_idx |-> None,
     inherited_state |-> None,
     pane_manifest |-> None,
     pending_tell_enter |-> None,
     next_msg_id |-> 0,
     received_tabs |-> {},
     tabs |-> <<>>,
     timers |-> 0,
     g_fx |-> NoFx,
     g_delivered |-> 0,
     g_pane_writes |-> <<>>,
     g_leader_seen |-> FALSE,
     g_log |-> <<>>,
     g_user_renamed |-> {},
     g_leaderless_start |-> FALSE,
     g_completed |-> FALSE,
     g_resigned |-> None,
     g_adopted |-> None]

\* the used set of allocate_from_pool: names of the records not user_defined
UsedNames(known_tabs) ==
    {known_tabs[t].name : t \in {u \in DOMAIN known_tabs : ~known_tabs[u].user_defined}}

\* ------------------------------------------------------------------------
\* The host: tabs, snapshots, rename commands
\* ------------------------------------------------------------------------

OpenTabs == DOMAIN host.tabs

\* position of a tab: its rank among the open tabs
PositionOf(t, open) == Cardinality({u \in open : u < t})

\* Event::TabUpdate(tabs): the open tabs in position order
HostSnapshot ==
    [k \in 1..Cardinality(OpenTabs) |->
        LET t == CHOOSE u \in OpenTabs : PositionOf(u, OpenTabs) = k - 1
        IN  [tab_id |-> t, position |-> k - 1, name |-> host.tabs[t]]]

\* ------------------------------------------------------------------------
\* Leader state management
\* ------------------------------------------------------------------------

\* fn broadcast_state: the messages it sends
broadcast_state(s) ==
    IF ~s.is_leader
    THEN <<>>
    ELSE <<[name |-> MSG_CREW_STATE, plugin_id |-> 0,
            state |-> SerializeState(s.known_tabs)]>>

\* reconcile_known_tab whose confirmation leaves pending_rename in place
reconcile_known_tab_still_pending(acc, tab) ==
    LET ct == acc.known_tabs[tab.tab_id]
        confirmed == IsSome(ct.pending_rename) /\ Unwrap(ct.pending_rename) = tab.name
        ct1 == IF confirmed
               THEN [ct EXCEPT !.name = tab.name, !.position = tab.position]
               ELSE IF ~IsSome(ct.pending_rename) /\ ct.name # tab.name
                    THEN [ct EXCEPT !.name = tab.name, !.user_defined = TRUE]
                    ELSE ct
    IN  [acc EXCEPT
            !.known_tabs = [acc.known_tabs EXCEPT
                              ![tab.tab_id] = [ct1 EXCEPT !.position = tab.position]]]

\* handle_leader_tab_update, an existing tab: confirmation, user rename,
\* position refresh
reconcile_known_tab(acc, tab) ==
    LET ct == acc.known_tabs[tab.tab_id]
        confirmed == IsSome(ct.pending_rename) /\ Unwrap(ct.pending_rename) = tab.name
        user_rename == ~IsSome(ct.pending_rename) /\ ct.name # tab.name
        ct1 == IF confirmed
               THEN [ct EXCEPT !.name = tab.name, !.position = tab.position,
                               !.pending_rename = None]
               ELSE IF user_rename
                    THEN [ct EXCEPT !.name = tab.name, !.user_defined = TRUE,
                                    !.position = tab.position]
                    ELSE ct
        ct2 == IF ct1.position # tab.position
               THEN [ct1 EXCEPT !.position = tab.position]
               ELSE ct1
    IN  [acc EXCEPT
            !.known_tabs = [acc.known_tabs EXCEPT ![tab.tab_id] = ct2],
            !.user_renamed = IF user_rename
                             THEN @ \cup {<<tab.tab_id, ct.name>>}
                             ELSE @]

\* self.known_tabs.insert(tab_id, record)
InsertTab(known_tabs, rec) ==
    [t \in DOMAIN known_tabs \cup {rec.tab_id} |->
        IF t = rec.tab_id THEN rec ELSE known_tabs[t]]

\* handle_leader_tab_update, a new tab: pool allocation and rename for a
\* default name, a user_defined record otherwise
reconcile_new_tab(acc, tab) ==
    IF IsDefaultName(tab.name)
    THEN LET r == allocate_from_pool(config.names, UsedNames(acc.known_tabs),
                                     config.mode, acc.last_assigned_idx)
         IN  IF IsSome(r.name)
             THEN [acc EXCEPT
                     !.last_assigned_idx = r.idx,
                     !.renames = @ \cup {<<tab.tab_id, Unwrap(r.name)>>},
                     !.log = Append(@, [tab_id |-> tab.tab_id,
                                        name |-> Unwrap(r.name),
                                        pool_tabs |-> {u \in DOMAIN acc.known_tabs :
                                                        ~acc.known_tabs[u].user_defined}]),
                     !.known_tabs = InsertTab(@,
                         CrewTabState(tab.tab_id, tab.position, tab.name,
                                      Some(Unwrap(r.name)), FALSE))]
             ELSE acc
    ELSE [acc EXCEPT
            !.known_tabs = InsertTab(@,
                CrewTabState(tab.tab_id, tab.position, tab.name, None, TRUE))]

RECURSIVE reconcile_tabs(_, _, _)
\* for tab in tabs { ... }
reconcile_tabs(acc, tabs, k) ==
    IF k > Len(tabs)
    THEN acc
    ELSE reconcile_tabs(
            IF tabs[k].tab_id \in DOMAIN acc.known_tabs
            THEN reconcile_known_tab(acc, tabs[k])
            ELSE reconcile_new_tab(acc, tabs[k]),
            tabs, k + 1)

\* Remove closed tabs (IDs no longer in TabUpdate)
remove_closed(known_tabs, tabs) ==
    [t \in DOMAIN known_tabs \cap {tabs[k].tab_id : k \in 1..Len(tabs)} |-> known_tabs[t]]

\* fn handle_leader_tab_update: the instance afterwards, the rename commands
\* issued and the broadcast sent
handle_leader_tab_update(s, tabs) ==
    LET acc0 == [known_tabs |-> s.known_tabs,
                 last_assigned_idx |-> s.last_assigned_idx,
                 renames |-> {}, log |-> s.g_log, user_renamed |-> {}]
        acc == reconcile_tabs(acc0, tabs, 1)
        s1 == [s EXCEPT !.known_tabs = remove_closed(acc.known_tabs, tabs),
                        !.last_assigned_idx = acc.last_assigned_idx,
                        !.g_log = acc.log,
                        !.g_user_renamed = acc.user_renamed]
    IN  [s |-> s1, out |-> broadcast_state(s1), renames |-> acc.renames]

\* ------------------------------------------------------------------------
\* Leader election
\* ------------------------------------------------------------------------

\* fn start_election
start_election(s, id) ==
    IF s.election_pending
    THEN [s |-> s, out |-> <<>>]
    ELSE [s |-> [s EXCEPT !.election_pending = TRUE, !.timers = @ + 1],
          out |-> <<[name |-> MSG_LEADER_PING, plugin_id |-> id, state |-> {}]>>]

\* if self.config.idle_sleep_secs > 0 { set_timeout(30.0) }
arm_sweep_timer(s) ==
    IF config.idle_sleep_secs > 0 THEN [s EXCEPT !.timers = @ + 1] ELSE s

\* become_leader without the adoption of the inherited state
become_leader_keeping_map(s, id) ==
    LET s1 == [s EXCEPT
                 !.is_leader = TRUE,
                 !.election_pending = FALSE,
                 !.g_completed = TRUE,
                 !.inherited_state = None]
        s2 == arm_sweep_timer(s1)
    IN  [s |-> s2,
         out |-> <<[name |-> MSG_LEADER_CLAIM, plugin_id |-> id, state |-> {}]>>
                 \o broadcast_state(s2)]

\* fn become_leader
become_leader(s, id) ==
    LET s1 == [s EXCEPT
                 !.is_leader = TRUE,
                 !.election_pending = FALSE,
                 !.g_completed = TRUE,
                 !.known_tabs = IF IsSome(s.inherited_state)
                                THEN Unwrap(s.inherited_state) ELSE @,
                 !.inherited_state = None]
        s2 == arm_sweep_timer(s1)
    IN  [s |-> s2,
         out |-> <<[name |-> MSG_LEADER_CLAIM, plugin_id |-> id, state |-> {}]>>
                 \o broadcast_state(s2)]

\* fn resign_leadership
resign_leadership(s, id) ==
    IF ~s.is_leader
    THEN [s |-> s, out |-> <<>>]
    ELSE [s |-> [s EXCEPT !.is_leader = FALSE,
                          !.g_resigned = Some(s.known_tabs)],
          out |-> <<[name |-> MSG_LEADER_RESIGN, plugin_id |-> id,
                     state |-> SerializeState(s.known_tabs)]>>]

\* ------------------------------------------------------------------------
\* Status updates, terminal activity, tell messages
\* ------------------------------------------------------------------------

MSG_STATUS == "zellij-crew:status"

MSG_TELL == "zellij-crew:msg"

\* StatusOfKeyword with one more keyword let through
StatusOfKeywordLenient ==
    [k \in {"unknown", "idle", "working", "question", "sleeping", "watching",
            "attention", "bogus"} |->
        CASE k = "unknown" -> "Unknown"
          [] k = "idle" -> "Idle"
          [] k = "working" -> "Working"
          [] k = "question" -> "Question"
          [] k = "sleeping" -> "Sleeping"
          [] k = "watching" -> "Watching"
          [] k = "attention" -> "Attention"
          [] k = "bogus" -> "Unknown"]

\* the match on state_str in update_name_status and update_pane_status
StatusOfKeyword ==
    [k \in {"unknown", "idle", "working", "question", "sleeping", "watching",
            "attention"} |->
        CASE k = "unknown" -> "Unknown"
          [] k = "idle" -> "Idle"
          [] k = "working" -> "Working"
          [] k = "question" -> "Question"
          [] k = "sleeping" -> "Sleeping"
          [] k = "watching" -> "Watching"
          [] k = "attention" -> "Attention"]

\* enum ActivityStatus
ActivityStatus == {StatusOfKeyword[k] : k \in DOMAIN StatusOfKeyword}

\* fn status_str
status_str(status) == CHOOSE k \in DOMAIN StatusOfKeyword : StatusOfKeyword[k] = status

\* fn epoch_secs
epoch_secs == host.now

\* now.saturating_sub(t)
saturating_sub(a, b) == IF a >= b THEN a - b ELSE 0

\* manifest.panes.iter().find_map(..): the tab position whose panes hold
\* terminal pane pane_id
pane_tab_position(pane_manifest, pane_id) ==
    IF ~IsSome(pane_manifest)
    THEN None
    ELSE LET panes == Unwrap(pane_manifest)
             hits == {pos \in DOMAIN panes :
                        \E k \in 1..Len(panes[pos]) :
                            ~panes[pos][k].is_plugin /\ panes[pos][k].id = pane_id}
         IN  IF hits = {} THEN None ELSE Some(CHOOSE pos \in hits : TRUE)

\* self.tabs.iter().find(|t| t.position == tab_pos).map(|t| t.tab_id)
tab_id_at(tabs, tab_pos) ==
    LET hits == {k \in 1..Len(tabs) : tabs[k].position = tab_pos}
    IN  IF hits = {}
        THEN None
        ELSE Some(tabs[CHOOSE k \in hits : \A j \in hits : k <= j].tab_id)

\* fn resolve_pane_name
resolve_pane_name(s, pane_id) ==
    LET tab_pos == pane_tab_position(s.pane_manifest, pane_id)
        tab_id == IF IsSome(tab_pos) THEN tab_id_at(s.tabs, Unwrap(tab_pos)) ELSE None
    IN  IF IsSome(tab_id) /\ Unwrap(tab_id) \in DOMAIN s.known_tabs
        THEN Some(s.known_tabs[Unwrap(tab_id)].name)
        ELSE None

\* self.known_tabs.values().find(|t| t.name == name): the tab ids that match
\* (the runs keep tab names distinct, so at most one does)
tabs_named(known_tabs, name) == {t \in DOMAIN known_tabs : known_tabs[t].name = name}

\* crew_tab.status = new_status; crew_tab.status_updated_at = Some(epoch_secs())
set_status(s, tab_id, new_status) ==
    [s EXCEPT !.known_tabs[tab_id].status = new_status,
              !.known_tabs[tab_id].status_updated_at = Some(epoch_secs)]

\* a status handler that changes nothing and logs what is given
StatusUnchanged(s, logged) == [s |-> s, out |-> <<>>, ret |-> FALSE, logged |-> logged]

\* update_name_status without the test that the status differs
update_name_status_restamp(s, name, state_str) ==
    IF state_str \notin DOMAIN StatusOfKeyword
    THEN StatusUnchanged(s, <<>>)
    ELSE LET new_status == StatusOfKeyword[state_str]
             found == tabs_named(s.known_tabs, name)
         IN  IF found = {}
             THEN StatusUnchanged(s, <<[t |-> "status", name |-> name, new |-> state_str,
                                        error |-> "tab not found", via |-> "name"]>>)
             ELSE LET tab_id == CHOOSE t \in found : TRUE
                      old == s.known_tabs[tab_id].status
                      s1 == set_status(s, tab_id, new_status)
                  IN  [s |-> s1,
                       out |-> <<>>,
                       ret |-> FALSE,
                       logged |-> <<[t |-> "status", name |-> name,
                                     old |-> status_str(old), new |-> state_str,
                                     changed |-> FALSE, via |-> "name"]>>]

\* fn update_name_status
update_name_status(s, name, state_str) ==
    IF state_str \notin DOMAIN StatusOfKeyword
    THEN StatusUnchanged(s, <<>>)
    ELSE LET new_status == StatusOfKeyword[state_str]
             found == tabs_named(s.known_tabs, name)
         IN  IF found = {}
             THEN StatusUnchanged(s, <<[t |-> "status", name |-> name, new |-> state_str,
                                        error |-> "tab not found", via |-> "name"]>>)
             ELSE LET tab_id == CHOOSE t \in found : TRUE
                      old == s.known_tabs[tab_id].status
                      changed == old # new_status
                      s1 == IF changed THEN set_status(s, tab_id, new_status) ELSE s
                  IN  [s |-> s1,
                       out |-> IF changed THEN broadcast_state(s1) ELSE <<>>,
                       ret |-> changed,
                       logged |-> <<[t |-> "status", name |-> name,
                                     old |-> status_str(old), new |-> state_str,
                                     changed |-> changed, via |-> "name"]>>]

\* fn update_pane_status
update_pane_status(s, pane_id, state_str) ==
    IF state_str \notin DOMAIN StatusOfKeyword
    THEN StatusUnchanged(s, <<>>)
    ELSE LET new_status == StatusOfKeyword[state_str]
             tab_position == pane_tab_position(s.pane_manifest, pane_id)
             tab_id == IF IsSome(tab_position)
                       THEN tab_id_at(s.tabs, Unwrap(tab_position))
                       ELSE None
         IN  IF ~IsSome(tab_position)
             THEN StatusUnchanged(s, <<[t |-> "status", pane |-> pane_id,
                                        new |-> state_str, error |-> "pane not found",
                                        via |-> "pane"]>>)
             ELSE IF ~IsSome(tab_id)
             THEN StatusUnchanged(s, <<[t |-> "status", pane |-> pane_id,
                                        new |-> state_str,
                                        error |-> "unmapped tab_position",
                                        via |-> "pane"]>>)
             ELSE IF Unwrap(tab_id) \notin DOMAIN s.known_tabs
             THEN StatusUnchanged(s, <<>>)
             ELSE LET old == s.known_tabs[Unwrap(tab_id)].status
                      tab_name == s.known_tabs[Unwrap(tab_id)].name
                      changed == old # new_status
                      s1 == IF changed
                            THEN set_status(s, Unwrap(tab_id), new_status)
                            ELSE s
                      logs == tab_name # ""
                  IN  [s |-> s1,
                       out |-> IF logs /\ changed THEN broadcast_state(s1) ELSE <<>>,
                       ret |-> logs /\ changed,
                       logged |-> IF logs
                                  THEN <<[t |-> "status", name |-> tab_name,
                                          pane |-> pane_id, old |-> status_str(old),
                                          new |-> state_str, changed |-> changed,
                                          via |-> "pane"]>>
                                  ELSE <<>>]

\* fn handle_external_status_update, the key=value forms
handle_external_status_update(s, req) ==
    IF IsSome(req.state) /\ IsSome(req.pane)
    THEN update_pane_status(s, Unwrap(req.pane), Unwrap(req.state))
    ELSE IF IsSome(req.state) /\ IsSome(req.tab)
    THEN update_name_status(s, Unwrap(req.tab), Unwrap(req.state))
    ELSE StatusUnchanged(s, <<>>)

\* pipe, "zellij-crew:status" at a Leader
on_status(s, id, req) ==
    LET e == handle_external_status_update(s, req)
    IN  [s |-> e.s,
         fx |-> [op |-> "status", req |-> req, pre |-> [s EXCEPT !.g_fx = NoFx],
                     writes |-> <<>>, cli |-> <<>>, logged |-> e.logged,
                     ret |-> e.ret, out |-> e.out],
         out |-> e.out, renames |-> {}]

\* str::to_ascii_lowercase on the tab names of the runs
LowerOf ==
    [n \in {"Alice", "Bob", "Carol", "alice", "bob", "carol"} |->
        CASE n \in {"Alice", "alice"} -> "alice"
          [] n \in {"Bob", "bob"} -> "bob"
          [] n \in {"Carol", "carol"} -> "carol"]

\* t.name.eq_ignore_ascii_case(dest)
eq_ignore_ascii_case(a, b) ==
    (IF a \in DOMAIN LowerOf THEN LowerOf[a] ELSE a)
        = (IF b \in DOMAIN LowerOf THEN LowerOf[b] ELSE b)

\* format!("pane {}", id)
PaneLabel(pane_id) == "pane " \o ToString(pane_id)

\* cli_pipe_output when the request came from the CLI
cli_pipe_output(req, reply) == IF req.cli THEN <<reply>> ELSE <<>>

\* a tell that delivers nothing: the reply, and the instance as it leaves it
TellFailed(s, req, error) ==
    [s |-> s, writes |-> <<>>, cli |-> cli_pipe_output(req, [error |-> error]),
     logged |-> <<>>]

\* panes.iter().find(|p| !p.is_plugin).map(|p| p.id)
first_terminal_pane(panes) ==
    LET hits == {k \in 1..Len(panes) : ~panes[k].is_plugin}
    IN  IF hits = {}
        THEN None
        ELSE Some(panes[CHOOSE k \in hits : \A j \in hits : k <= j].id)

\* known_tabs.values_mut().find(|t| t.name == name): set a message stamp
stamp_tab(known_tabs, name, field, stamp) ==
    LET found == tabs_named(known_tabs, name)
    IN  IF found = {}
        THEN known_tabs
        ELSE LET tab_id == CHOOSE t \in found : TRUE
             IN  [known_tabs EXCEPT ![tab_id] =
                    IF field = "last_msg_to"
                    THEN [@ EXCEPT !.last_msg_to = Some(stamp)]
                    ELSE [@ EXCEPT !.last_msg_from = Some(stamp)]]

\* fn handle_tell_message
handle_tell_message(s, req) ==
    IF ~IsSome(req.to)
    THEN TellFailed(s, req, "missing 'to' argument")
    ELSE IF ~IsSome(req.payload) \/ req.payload = Some("")
    THEN TellFailed(s, req, "missing message payload")
    ELSE
    LET dest == Unwrap(req.to)
        message == Unwrap(req.payload)
        resolved == IF IsSome(req.pane) THEN resolve_pane_name(s, Unwrap(req.pane))
                    ELSE None
        sender == IF IsSome(resolved) THEN Unwrap(resolved)
                  ELSE IF IsSome(req.pane) THEN PaneLabel(Unwrap(req.pane))
                  ELSE "unknown"
        found == {t \in DOMAIN s.known_tabs :
                    eq_ignore_ascii_case(s.known_tabs[t].name, dest)}
    IN  IF found = {}
        THEN TellFailed(s, req, "tab not found")
        ELSE
        LET dest_tab == s.known_tabs[CHOOSE t \in found : TRUE]
            dest_name == dest_tab.name
            msg_id == s.next_msg_id + 1
            s1 == [s EXCEPT !.next_msg_id = msg_id]
        IN  IF ~IsSome(s.pane_manifest)
            THEN TellFailed(s1, req, "pane manifest not available")
            ELSE
            LET panes == Unwrap(s.pane_manifest)
                dest_pane_id == IF dest_tab.position \in DOMAIN panes
                                THEN first_terminal_pane(panes[dest_tab.position])
                                ELSE None
            IN  IF ~IsSome(dest_pane_id)
                THEN TellFailed(s1, req, "no terminal pane found")
                ELSE
                LET pane_id == Unwrap(dest_pane_id)
                    stamp == <<msg_id, epoch_secs>>
                    s2 == [s1 EXCEPT
                             !.pending_tell_enter = Some(pane_id),
                             !.timers = @ + 1,
                             !.known_tabs =
                                 stamp_tab(stamp_tab(@, dest_name, "last_msg_to", stamp),
                                           sender, "last_msg_from", stamp)]
                IN  [s |-> s2,
                     writes |-> <<[pane |-> pane_id,
                                   bytes |-> [id |-> msg_id, from |-> sender,
                                              to |-> dest_name, message |-> message]]>>,
                     cli |-> cli_pipe_output(req, [sent |-> msg_id, to |-> dest_name,
                                                   pane |-> pane_id]),
                     logged |-> <<[t |-> "msg", id |-> msg_id, from |-> sender,
                                   to |-> dest_name, pane |-> pane_id,
                                   msg |-> message]>>]

\* on_tell that gives the counter back after the message
on_tell_reusing_id(s, id, req) ==
    LET e == handle_tell_message(s, req)
    IN  [s |-> [e.s EXCEPT !.next_msg_id = s.next_msg_id,
                           !.g_delivered = @ + Len(e.writes),
                           !.g_pane_writes =
                               @ \o [k \in 1..Len(e.writes) |->
                                       [pane |-> e.writes[k].pane,
                                        id |-> e.writes[k].bytes.id]]],
         fx |-> [op |-> "tell", req |-> req, pre |-> [s EXCEPT !.g_fx = NoFx],
                     writes |-> e.writes, cli |-> e.cli, logged |-> e.logged,
                     ret |-> FALSE, out |-> <<>>],
         out |-> <<>>, renames |-> {}]

\* pipe, "zellij-crew:msg" at a Leader
on_tell(s, id, req) ==
    LET e == handle_tell_message(s, req)
    IN  [s |-> [e.s EXCEPT !.g_delivered = @ + Len(e.writes),
                           !.g_pane_writes =
                               @ \o [k \in 1..Len(e.writes) |->
                                       [pane |-> e.writes[k].pane,
                                        id |-> e.writes[k].bytes.id]]],
         fx |-> [op |-> "tell", req |-> req, pre |-> [s EXCEPT !.g_fx = NoFx],
                     writes |-> e.writes, cli |-> e.cli, logged |-> e.logged,
                     ret |-> FALSE, out |-> <<>>],
         out |-> <<>>, renames |-> {}]

\* a request that reaches an instance which does not handle it
on_ignored(s, op, req) ==
    [s |-> s,
     fx |-> [op |-> op, req |-> req, pre |-> [s EXCEPT !.g_fx = NoFx],
                 writes |-> <<>>, cli |-> <<>>, logged |-> <<>>,
                 ret |-> FALSE, out |-> <<>>],
     out |-> <<>>, renames |-> {}]

\* on_pane_update without the is_leader test
on_pane_update_any(s, id, pane_manifest) ==
    [s |-> [s EXCEPT !.pane_manifest = Some(pane_manifest)],
     fx |-> [op |-> "panes", req |-> pane_manifest,
                 pre |-> [s EXCEPT !.g_fx = NoFx],
                 writes |-> <<>>, cli |-> <<>>, logged |-> <<>>,
                 ret |-> FALSE, out |-> <<>>],
     out |-> <<>>, renames |-> {}]

\* Event::PaneUpdate(pane_manifest)
on_pane_update(s, id, pane_manifest) ==
    LET s1 == IF s.is_leader
              THEN [s EXCEPT !.pane_manifest = Some(pane_manifest)]
              ELSE s
    IN  [s |-> s1,
         fx |-> [op |-> "panes", req |-> pane_manifest,
                     pre |-> [s EXCEPT !.g_fx = NoFx],
                     writes |-> <<>>, cli |-> <<>>, logged |-> <<>>,
                     ret |-> FALSE, out |-> <<>>],
         out |-> <<>>, renames |-> {}]

\* Event::PaneRenderReport(pane_contents) with one terminal pane in it
on_pane_render_report(s, id, pane_id) ==
    LET tab_pos == pane_tab_position(s.pane_manifest, pane_id)
        tab_id == IF IsSome(tab_pos) THEN tab_id_at(s.tabs, Unwrap(tab_pos)) ELSE None
        known == s.is_leader /\ IsSome(tab_id) /\ Unwrap(tab_id) \in DOMAIN s.known_tabs
        wakes == known /\ s.known_tabs[Unwrap(tab_id)].status = "Sleeping"
        s1 == IF known
              THEN [s EXCEPT !.known_tabs[Unwrap(tab_id)].last_activity_at =
                                Some(epoch_secs)]
              ELSE s
        s2 == IF wakes THEN set_status(s1, Unwrap(tab_id), "Idle") ELSE s1
        out == IF wakes THEN broadcast_state(s2) ELSE <<>>
    IN  [s |-> s2,
         fx |-> [op |-> "output", req |-> pane_id,
                     pre |-> [s EXCEPT !.g_fx = NoFx],
                     writes |-> <<>>, cli |-> <<>>, logged |-> <<>>,
                     ret |-> wakes, out |-> out],
         out |-> out, renames |-> {}]

\* ------------------------------------------------------------------------
\* Event handlers (fn update, fn pipe): each gives the instance afterwards,
\* the broadcasts sent (out) and the rename commands issued (renames)
\* ------------------------------------------------------------------------

NoEffect(s) == [s |-> s, out |-> <<>>, renames |-> {}]

\* Event::TabUpdate(tabs)
on_tab_update(s, id, tabs) ==
    LET e1 == IF ~s.is_leader /\ ~s.election_pending /\ s.tabs = <<>>
              THEN start_election(s, id)
              ELSE [s |-> s, out |-> <<>>]
        e2 == IF e1.s.is_leader
              THEN handle_leader_tab_update(e1.s, tabs)
              ELSE NoEffect(e1.s)
    IN  [s |-> [e2.s EXCEPT !.tabs = tabs],
         out |-> e1.out \o e2.out,
         renames |-> e2.renames]

\* sweep_tab without the activity test
sweep_tab_status_only(crew_tab) ==
    IF /\ crew_tab.status \notin {"Sleeping", "Unknown"}
       /\ IsSome(crew_tab.status_updated_at)
       /\ saturating_sub(epoch_secs, Unwrap(crew_tab.status_updated_at))
             >= config.idle_sleep_secs
    THEN [crew_tab EXCEPT !.status = "Sleeping", !.status_updated_at = Some(epoch_secs)]
    ELSE crew_tab

\* Event::Timer, the periodic activity check on one tab
sweep_tab(crew_tab) ==
    LET now == epoch_secs
        threshold == config.idle_sleep_secs
        status_stale == IF IsSome(crew_tab.status_updated_at)
                        THEN saturating_sub(now, Unwrap(crew_tab.status_updated_at))
                                >= threshold
                        ELSE FALSE
        activity_stale == IF IsSome(crew_tab.last_activity_at)
                          THEN saturating_sub(now, Unwrap(crew_tab.last_activity_at))
                                  >= threshold
                          ELSE TRUE
    IN  IF crew_tab.status \in {"Sleeping", "Unknown"}
        THEN crew_tab
        ELSE IF status_stale /\ activity_stale
             THEN [crew_tab EXCEPT !.status = "Sleeping",
                                   !.status_updated_at = Some(now)]
             ELSE crew_tab

\* idle_sweep without the test of the threshold
idle_sweep_any_threshold(s) ==
    IF s.is_leader
    THEN LET swept == [t \in DOMAIN s.known_tabs |-> sweep_tab(s.known_tabs[t])]
             s1 == [s EXCEPT !.known_tabs = swept]
         IN  [s |-> [s1 EXCEPT !.timers = @ + 1],
              out |-> IF swept # s.known_tabs THEN broadcast_state(s1) ELSE <<>>,
              swept |-> TRUE]
    ELSE [s |-> s, out |-> <<>>, swept |-> FALSE]

\* Event::Timer, the periodic activity check: stale tabs go to Sleeping, the
\* state is broadcast when a tab changed, the timer is re-armed
idle_sweep(s) ==
    IF s.is_leader /\ config.idle_sleep_secs > 0
    THEN LET swept == [t \in DOMAIN s.known_tabs |-> sweep_tab(s.known_tabs[t])]
             s1 == [s EXCEPT !.known_tabs = swept]
         IN  [s |-> [s1 EXCEPT !.timers = @ + 1],
              out |-> IF swept # s.known_tabs THEN broadcast_state(s1) ELSE <<>>,
              swept |-> TRUE]
    ELSE [s |-> s, out |-> <<>>, swept |-> FALSE]

\* Event::Timer(_)
on_timer(s, id) ==
    LET s0 == [s EXCEPT !.pending_tell_enter = None,
                        !.g_pane_writes =
                            IF IsSome(s.pending_tell_enter)
                            THEN Append(@, [pane |-> Unwrap(s.pending_tell_enter),
                                            id |-> 0])
                            ELSE @]
        e1 == IF s.election_pending
              THEN become_leader(s0, id)
              ELSE [s |-> s0, out |-> <<>>]
        e2 == IF s.election_pending /\ e1.s.tabs # <<>>
              THEN handle_leader_tab_update(e1.s, e1.s.tabs)
              ELSE NoEffect(e1.s)
        s3 == IF s.election_pending /\ IsSome(s.inherited_state)
              THEN [e2.s EXCEPT !.g_adopted =
                        Some([map |-> e1.s.known_tabs, renames |-> e2.renames])]
              ELSE e2.s
        e4 == idle_sweep(s3)
    IN  [s |-> e4.s,
         fx |-> [op |-> "timer", req |-> epoch_secs,
                 pre |-> [s EXCEPT !.g_fx = NoFx],
                 writes |-> IF IsSome(s.pending_tell_enter)
                            THEN <<[pane |-> Unwrap(s.pending_tell_enter),
                                    bytes |-> "\r"]>>
                            ELSE <<>>,
                 cli |-> <<>>, logged |-> <<>>, ret |-> FALSE,
                 swept |-> e4.swept, before_sweep |-> s3.known_tabs,
                 out |-> e1.out \o e2.out \o e4.out],
         out |-> e1.out \o e2.out \o e4.out,
         renames |-> e2.renames]

\* Event::BeforeClose
on_before_close(s, id) ==
    LET e == resign_leadership(s, id)
    IN  [s |-> e.s, out |-> e.out, renames |-> {}]

\* Event::PermissionRequestResult(PermissionStatus::Granted)
on_permission_granted(s, id) ==
    LET e == start_election(s, id)
    IN  [s |-> e.s, out |-> e.out, renames |-> {}]

\* pipe_message.payload is Some and serde_json::from_str::<Value> is Ok
IsJson(msg) == "plugin_id" \in DOMAIN msg \/ "json" \in DOMAIN msg

\* msg["plugin_id"].as_u64().unwrap_or(0)
plugin_id_of(msg) == IF "plugin_id" \in DOMAIN msg THEN msg.plugin_id ELSE 0

\* msg.get("state") is Some and from_value::<Vec<CrewTabState>> is Ok
HasState(msg) == "state" \in DOMAIN msg

\* pipe, MSG_LEADER_PING
on_leader_ping(s, id, msg) ==
    IF IsJson(msg) /\ plugin_id_of(msg) # id /\ s.is_leader
    THEN [s |-> s,
          out |-> <<[name |-> MSG_LEADER_ACK, plugin_id |-> id,
                     state |-> SerializeState(s.known_tabs)]>>,
          renames |-> {}]
    ELSE NoEffect(s)

\* on_leader_ack without the test of election_pending
on_leader_ack_always(s, id, msg) ==
    IF IsJson(msg) /\ plugin_id_of(msg) # id
    THEN NoEffect([s EXCEPT !.election_pending = FALSE,
                            !.g_completed = TRUE,
                            !.received_tabs = IF HasState(msg)
                                              THEN DeserializeState(msg.state)
                                              ELSE @])
    ELSE NoEffect(s)

\* pipe, MSG_LEADER_ACK
on_leader_ack(s, id, msg) ==
    IF IsJson(msg) /\ plugin_id_of(msg) # id /\ s.election_pending
    THEN NoEffect([s EXCEPT !.election_pending = FALSE,
                            !.g_completed = TRUE,
                            !.g_leader_seen = TRUE,
                            !.received_tabs = IF HasState(msg)
                                              THEN DeserializeState(msg.state)
                                              ELSE @])
    ELSE IF IsJson(msg) /\ plugin_id_of(msg) # id
         THEN NoEffect([s EXCEPT !.g_leader_seen = TRUE])
         ELSE NoEffect(s)

\* on_leader_claim yielding to every other id
on_leader_claim_any_id(s, id, msg) ==
    IF IsJson(msg) /\ plugin_id_of(msg) # id
    THEN NoEffect([s EXCEPT
            !.is_leader = FALSE,
            !.election_pending = FALSE,
            !.g_completed = IF s.election_pending THEN TRUE ELSE @])
    ELSE NoEffect(s)

\* pipe, MSG_LEADER_CLAIM
on_leader_claim(s, id, msg) ==
    IF IsJson(msg) /\ plugin_id_of(msg) # id
    THEN NoEffect([s EXCEPT
            !.is_leader = IF s.is_leader /\ plugin_id_of(msg) > id THEN FALSE ELSE @,
            !.election_pending =
                IF s.election_pending /\ plugin_id_of(msg) > id THEN FALSE ELSE @,
            !.g_completed =
                IF s.election_pending /\ plugin_id_of(msg) > id THEN TRUE ELSE @])
    ELSE NoEffect(s)

\* pipe, MSG_LEADER_RESIGN
on_leader_resign(s, id, msg) ==
    IF IsJson(msg) /\ plugin_id_of(msg) # id
    THEN LET s1 == [s EXCEPT !.inherited_state =
                        IF HasState(msg)
                        THEN Some(CollectByTabId(DeserializeState(msg.state)))
                        ELSE @]
             e == start_election(s1, id)
         IN  [s |-> e.s, out |-> e.out, renames |-> {}]
    ELSE NoEffect(s)

\* on_crew_state without the test of is_leader
on_crew_state_any_role(s, id, msg) ==
    NoEffect([s EXCEPT !.election_pending = FALSE,
                       !.g_leader_seen = @ \/ HasState(msg),
                       !.g_completed = @ \/ s.election_pending,
                       !.received_tabs = IF HasState(msg)
                                         THEN DeserializeState(msg.state)
                                         ELSE @])

\* pipe, "crew-state" at an instance that is not Leader
on_crew_state(s, id, msg) ==
    IF ~s.is_leader
    THEN NoEffect([s EXCEPT !.election_pending = FALSE,
                            !.g_leader_seen = @ \/ HasState(msg),
                            !.g_completed = @ \/ s.election_pending,
                            !.received_tabs = IF HasState(msg)
                                              THEN DeserializeState(msg.state)
                                              ELSE @])
    ELSE NoEffect(s)

\* fn pipe
pipe(s, id, msg) ==
    IF msg.name = MSG_LEADER_PING THEN on_leader_ping(s, id, msg)
    ELSE IF msg.name = MSG_LEADER_ACK THEN on_leader_ack(s, id, msg)
    ELSE IF msg.name = MSG_LEADER_CLAIM THEN on_leader_claim(s, id, msg)
    ELSE IF msg.name = MSG_LEADER_RESIGN THEN on_leader_resign(s, id, msg)
    ELSE IF msg.name = MSG_CREW_STATE THEN on_crew_state(s, id, msg)
    ELSE IF msg.name = MSG_STATUS
         THEN IF s.is_leader THEN on_status(s, id, msg) ELSE on_ignored(s, "status", msg)
    ELSE IF msg.name = MSG_TELL
         THEN IF s.is_leader THEN on_tell(s, id, msg) ELSE on_ignored(s, "tell", msg)
    ELSE NoEffect(s)

\* ------------------------------------------------------------------------
\* Actions: one per event delivered to an instance, one per host step
\* ------------------------------------------------------------------------

Pairs == Instances \X Instances

\* what an instance's own broadcasts can do to it: pipe drops its own PING,
\* ACK, CLAIM and RESIGN by plugin_id, "crew-state" carries no plugin_id
IsCrewState(m) == m.name = MSG_CREW_STATE

\* the instance has subscribed (load) and its permission request is answered:
\* events and pipe messages reach it
Listening(i) == st[i].phase \in {"granted", "denied"}

\* 1 when the effect is that of a malformed protocol message, which the
\* runs count
Injected(e) == IF "fx" \in DOMAIN e /\ e.fx.op = "malformed" THEN 1 ELSE 0

\* pipe_message_to_plugin without a destination reaches every running
\* instance, the sender included; rename_tab_with_id queues a host command
Commit(i, e, phase, ch) ==
    /\ st' = [st EXCEPT ![i] =
                [e.s EXCEPT !.phase = phase,
                            !.g_fx = IF "fx" \in DOMAIN e THEN e.fx ELSE NoFx]]
    /\ chan' = [p \in Pairs |->
                  IF phase = "closed" /\ p[2] = i
                  THEN <<>>
                  ELSE IF p[1] = i /\ p[2] = i /\ phase = "granted"
                       THEN ch[p] \o SelectSeq(e.out, IsCrewState)
                       ELSE IF p[1] = i /\ p[2] # i /\ phase # "denied"
                               /\ Listening(p[2])
                            THEN ch[p] \o e.out
                            ELSE ch[p]]
    /\ host' = [host EXCEPT !.cmds = IF phase # "denied" THEN @ \cup e.renames ELSE @,
                            !.requests = @ + Injected(e)]
    /\ UNCHANGED <<alloc, config>>

PermissionGranted(i) ==
    /\ st[i].phase = "loaded"
    /\ Commit(i, on_permission_granted(
                    [st[i] EXCEPT !.g_leaderless_start =
                        \A j \in Instances : ~st[j].is_leader], i),
              "granted", chan)

\* Event::PermissionRequestResult(PermissionStatus::Denied): only logs
on_permission_denied(s, id) == NoEffect(s)

PermissionDenied(i) ==
    /\ st[i].phase = "loaded"
    /\ Commit(i, on_permission_denied(st[i], i), "denied", chan)

TabUpdate(i) ==
    /\ Listening(i)
    /\ Commit(i, on_tab_update(st[i], i, HostSnapshot), st[i].phase, chan)

Timer(i) ==
    /\ Listening(i)
    /\ st[i].timers > 0
    /\ Commit(i, on_timer([st[i] EXCEPT !.timers = @ - 1], i), st[i].phase, chan)

BeforeClose(i) ==
    /\ st[i].phase = "granted"
    /\ Commit(i, on_before_close(st[i], i), "closed", chan)

Deliver(from, to) ==
    /\ Listening(to)
    /\ chan[<<from, to>>] # <<>>
    /\ Commit(to, pipe(st[to], to, Head(chan[<<from, to>>])), st[to].phase,
              [chan EXCEPT ![<<from, to>>] = Tail(@)])

\* a pipe message with a protocol name whose payload is none or no JSON
\* ([name]), JSON without plugin_id and state ([name, json]), or JSON with a
\* plugin_id and no well-formed state
MalformedMessages ==
    {[name |-> n] :
        n \in {MSG_LEADER_PING, MSG_LEADER_ACK, MSG_LEADER_CLAIM,
               MSG_LEADER_RESIGN, MSG_CREW_STATE}}
    \cup {[name |-> n, json |-> TRUE] :
        n \in {MSG_LEADER_PING, MSG_LEADER_ACK, MSG_LEADER_CLAIM,
               MSG_LEADER_RESIGN, MSG_CREW_STATE}}
    \cup {[name |-> n, json |-> TRUE, plugin_id |-> k] :
        n \in {MSG_LEADER_ACK, MSG_LEADER_RESIGN}, k \in Instances}

\* pipe with a malformed protocol message
on_malformed(s, id, msg) ==
    LET e == pipe(s, id, msg)
    IN  [s |-> e.s,
         fx |-> [op |-> "malformed", req |-> msg, pre |-> [s EXCEPT !.g_fx = NoFx],
                 writes |-> <<>>, cli |-> <<>>, logged |-> <<>>,
                 ret |-> FALSE, out |-> e.out],
         out |-> e.out, renames |-> e.renames]

\* some plugin or CLI pipes a malformed protocol message to instance i
Malformed(i) ==
    /\ Listening(i)
    /\ host.requests < MaxMalformed
    /\ \E msg \in MalformedMessages :
        Commit(i, on_malformed(st[i], i, msg), st[i].phase, chan)

HostOpenTab(name) ==
    /\ host.next_tab_id <= host.max_tabs
    /\ Cardinality(OpenTabs) < host.max_open
    /\ host' = [host EXCEPT
                  !.tabs = [t \in OpenTabs \cup {host.next_tab_id} |->
                              IF t = host.next_tab_id THEN name ELSE host.tabs[t]],
                  !.next_tab_id = @ + 1]
    /\ UNCHANGED <<alloc, config, st, chan>>

HostOpenDefaultTab == HostOpenTab(DefaultNameOf[host.next_tab_id])

HostOpenNamedTab == \E n \in UserNames : HostOpenTab(n)

HostCloseTab ==
    /\ Cardinality(OpenTabs) > 1
    /\ \E t \in OpenTabs :
        host' = [host EXCEPT !.tabs = [u \in OpenTabs \ {t} |-> host.tabs[u]]]
    /\ UNCHANGED <<alloc, config, st, chan>>

HostUserRename ==
    /\ \E t \in OpenTabs, n \in UserNames :
        /\ host.tabs[t] # n
        /\ host' = [host EXCEPT !.tabs[t] = n]
    /\ UNCHANGED <<alloc, config, st, chan>>

\* the host reports a snapshot when it differs from the last one reported
SnapshotChanged(i) == st[i].tabs # HostSnapshot

\* the host carries out a rename_tab_with_id command
HostApplyRename ==
    /\ \E c \in host.cmds :
        host' = [host EXCEPT
                   !.cmds = @ \ {c},
                   !.tabs = IF c[1] \in OpenTabs
                            THEN [host.tabs EXCEPT ![c[1]] = c[2]]
                            ELSE @]
    /\ UNCHANGED <<alloc, config, st, chan>>

\* ------------------------------------------------------------------------
\* Reconciliation runs: one instance, which is elected and then reconciles
\* the snapshots of a host whose tabs open, close and are renamed
\* ------------------------------------------------------------------------

IdleAlloc ==
    [names |-> <<>>, mode |-> "RoundRobin", used |-> {}, cursor |-> None,
     pristine |-> TRUE, cursor0 |-> None, calls |-> 0, steps |-> 0,
     used_before |-> {}, cursor_before |-> None,
     last_freed |-> None, freed_before |-> None, result |-> None]

\* a session starts with one tab; max_tabs and max_open bound the run
InitHost(max_tabs, max_open) ==
    [tabs |-> [t \in {1} |-> DefaultNameOf[1]], next_tab_id |-> 2, cmds |-> {},
     max_tabs |-> max_tabs, max_open |-> max_open,
     now |-> 0, panes |-> EmptyMap, requests |-> 0]

\* the pool of the reconciliation runs
ReconPool == <<"alpha", "bravo">>

ReconInit ==
    /\ alloc = IdleAlloc
    /\ \E mode \in AllocationModes :
        config = [names |-> ReconPool, mode |-> mode, idle_sleep_secs |-> 0]
    /\ st = [i \in Instances |-> InitInstance(IF i = 5 THEN "loaded" ELSE "absent")]
    /\ chan = [p \in Pairs |-> <<>>]
    /\ host = InitHost(MaxTabs, MaxTabs)

\* no broadcast is waiting to be delivered. The one instance of these runs
\* ignores every broadcast that comes back to it (its own PING and CLAIM by
\* id, its own crew-state as Leader), so the runs deliver them first.
Quiet == \A p \in Pairs : chan[p] = <<>>

ReconNext ==
    \/ \E from, to \in Instances : Deliver(from, to)
    \/ Quiet /\ \E i \in Instances : PermissionGranted(i)
    \/ Quiet /\ \E i \in Instances : Timer(i)
    \/ Quiet /\ \E i \in Instances : TabUpdate(i)
    \/ Quiet /\ HostOpenDefaultTab
    \/ Quiet /\ HostOpenNamedTab
    \/ Quiet /\ HostCloseTab
    \/ Quiet /\ HostUserRename
    \/ Quiet /\ HostApplyRename

SpecRecon == ReconInit /\ [][ReconNext]_vars

\* ------------------------------------------------------------------------
\* Pool-return runs: the pool is [alpha, bravo, charlie] and every tab of
\* the session arrives with a default name; tabs open and close, nobody
\* renames a tab by hand
\* ------------------------------------------------------------------------

ScenarioPool == <<"alpha", "bravo", "charlie">>

PoolReturnInit ==
    /\ alloc = IdleAlloc
    /\ \E mode \in AllocationModes :
        config = [names |-> ScenarioPool, mode |-> mode, idle_sleep_secs |-> 0]
    /\ st = [i \in Instances |-> InitInstance(IF i = 5 THEN "loaded" ELSE "absent")]
    /\ chan = [p \in Pairs |-> <<>>]
    /\ host = InitHost(MaxScenarioTabs, MaxScenarioOpen)

PoolReturnNext ==
    \/ \E from, to \in Instances : Deliver(from, to)
    \/ Quiet /\ \E i \in Instances : PermissionGranted(i)
    \/ Quiet /\ \E i \in Instances : Timer(i)
    \/ Quiet /\ \E i \in Instances : TabUpdate(i)
    \/ Quiet /\ HostOpenDefaultTab
    \/ Quiet /\ HostCloseTab
    \/ Quiet /\ HostApplyRename

SpecPoolReturn == PoolReturnInit /\ [][PoolReturnNext]_vars

\* ------------------------------------------------------------------------
\* Crew runs: one instance is elected Leader of a session of four tabs
\* (Alice, Bob, Carol and one the empty pool leaves unrecorded); status
\* requests, tell requests, pane snapshots, terminal output and timer ticks
\* reach it while the clock advances
\* ------------------------------------------------------------------------

\* config.idle_sleep_secs of the crew runs
IdleThreshold == 1

CrewTabs == <<"Alice", "Bob", "Carol", "Tab #4">>

\* the PaneManifest of the session by tab position: Alice has terminal 41,
\* Bob a plugin pane and terminal 42, Carol only a plugin pane, the fourth
\* tab terminal 44
CrewPanes ==
    [pos \in 0..3 |->
        CASE pos = 0 -> <<[id |-> 41, is_plugin |-> FALSE]>>
          [] pos = 1 -> <<[id |-> 42, is_plugin |-> TRUE], [id |-> 42, is_plugin |-> FALSE]>>
          [] pos = 2 -> <<[id |-> 7, is_plugin |-> TRUE]>>
          [] pos = 3 -> <<[id |-> 44, is_plugin |-> FALSE]>>]

\* state_str of a status request: the seven keywords and one that is none
StateStrs == DOMAIN StatusOfKeyword \cup {"bogus"}

\* zellij pipe --name zellij-crew:status --args "pane=..,state=.." or
\* "name=..,state=..": every state_str for Bob, by pane 42 and by name; one
\* keyword for the pane of the unrecorded tab (44), for a pane that is none
\* of the session (99) and for a name no tab has; one request without state
StatusRequests ==
    {[name |-> MSG_STATUS, state |-> Some(k), pane |-> Some(42), tab |-> None] :
        k \in StateStrs}
    \cup {[name |-> MSG_STATUS, state |-> Some(k), pane |-> None, tab |-> Some("Bob")] :
        k \in StateStrs}
    \cup {[name |-> MSG_STATUS, state |-> Some("working"), pane |-> Some(p), tab |-> None] :
        p \in {44, 99}}
    \cup {[name |-> MSG_STATUS, state |-> Some("working"), pane |-> None,
           tab |-> Some("Nobody")],
          [name |-> MSG_STATUS, state |-> None, pane |-> None, tab |-> Some("Bob")]}

\* zellij pipe --name zellij-crew:msg --args "to=..,pane=.." with a payload
TellRequests ==
    {[name |-> MSG_TELL, to |-> to, payload |-> Some("hi"), pane |-> Some(41),
      cli |-> TRUE] :
        to \in {None, Some("bob"), Some("Carol"), Some("Nobody")}}
    \cup {[name |-> MSG_TELL, to |-> Some("bob"), payload |-> payload,
           pane |-> Some(41), cli |-> TRUE] :
        payload \in {None, Some("")}}

\* the terminal panes whose output is reported
ReportPanes == {42, 44}

\* one of the requests reqs is piped to instance i
RequestFrom(i, reqs) ==
    /\ st[i].phase = "granted"
    /\ \E req \in reqs : Commit(i, pipe(st[i], i, req), "granted", chan)

StatusRequest(i) == RequestFrom(i, StatusRequests)

TellRequest(i) ==
    /\ st[i].next_msg_id < MaxMsgs
    /\ RequestFrom(i, TellRequests)

PaneUpdate(i) ==
    /\ st[i].phase = "granted"
    /\ Commit(i, on_pane_update(st[i], i, host.panes), "granted", chan)

PaneRenderReport(i) ==
    /\ st[i].phase = "granted"
    /\ \E pane_id \in ReportPanes :
        Commit(i, on_pane_render_report(st[i], i, pane_id), "granted", chan)

\* the clock of epoch_secs advances
Tick ==
    /\ host.now < MaxNow
    /\ host' = [host EXCEPT !.now = @ + 1]
    /\ UNCHANGED <<alloc, config, st, chan>>

CrewInit ==
    /\ alloc = IdleAlloc
    /\ config = [names |-> <<>>, mode |-> "RoundRobin", idle_sleep_secs |-> IdleThreshold]
    /\ st = [i \in Instances |-> InitInstance(IF i = 5 THEN "loaded" ELSE "absent")]
    /\ chan = [p \in Pairs |-> <<>>]
    /\ host = [tabs |-> CrewTabs, next_tab_id |-> 5, cmds |-> {},
               max_tabs |-> 4, max_open |-> 4,
               now |-> 0, panes |-> CrewPanes, requests |-> 0]

CrewNext ==
    \/ \E from, to \in Instances : Deliver(from, to)
    \/ Quiet /\ \E i \in Instances : PermissionGranted(i)
    \/ Quiet /\ \E i \in Instances : Timer(i)
    \/ Quiet /\ \E i \in Instances : SnapshotChanged(i) /\ TabUpdate(i)
    \/ Quiet /\ \E i \in Instances : PaneUpdate(i)
    \/ Quiet /\ \E i \in Instances : PaneRenderReport(i)
    \/ Quiet /\ \E i \in Instances : StatusRequest(i)
    \/ Quiet /\ \E i \in Instances : TellRequest(i)
    \/ Quiet /\ Tick

SpecCrew == CrewInit /\ [][CrewNext]_vars

\* ------------------------------------------------------------------------
\* Crew runs with idle_sleep_secs = 0
\* ------------------------------------------------------------------------

NoSweepInit ==
    /\ alloc = IdleAlloc
    /\ config = [names |-> <<>>, mode |-> "RoundRobin", idle_sleep_secs |-> 0]
    /\ st = [i \in Instances |-> InitInstance(IF i = 5 THEN "loaded" ELSE "absent")]
    /\ chan = [p \in Pairs |-> <<>>]
    /\ host = [tabs |-> CrewTabs, next_tab_id |-> 5, cmds |-> {},
               max_tabs |-> 4, max_open |-> 4,
               now |-> 0, panes |-> CrewPanes, requests |-> 0]

\* the requests of these runs: Bob is set to Working and to Idle, and is
\* sent a message
NoSweepRequests ==
    {[name |-> MSG_STATUS, state |-> Some("working"), pane |-> None, tab |-> Some("Bob")],
     [name |-> MSG_STATUS, state |-> Some("idle"), pane |-> Some(42), tab |-> None],
     [name |-> MSG_TELL, to |-> Some("bob"), payload |-> Some("hi"), pane |-> Some(41),
      cli |-> TRUE]}

NoSweepNext ==
    \/ \E from, to \in Instances : Deliver(from, to)
    \/ Quiet /\ \E i \in Instances : PermissionGranted(i)
    \/ Quiet /\ \E i \in Instances : Timer(i)
    \/ Quiet /\ \E i \in Instances : SnapshotChanged(i) /\ TabUpdate(i)
    \/ Quiet /\ \E i \in Instances : PaneUpdate(i)
    \/ Quiet /\ \E i \in Instances : PaneRenderReport(i)
    \/ Quiet /\ \E i \in Instances :
                    st[i].next_msg_id < MaxMsgs /\ RequestFrom(i, NoSweepRequests)
    \/ Quiet /\ Tick

SpecNoSweep == NoSweepInit /\ [][NoSweepNext]_vars

\* ------------------------------------------------------------------------
\* Renderer runs: instances 5 and 9 are both loaded in the session of the
\* crew runs; pane snapshots reach every instance, requests and terminal
\* output the instances that are not Leader (the crew runs send them to a
\* Leader). A timer may fire before the broadcasts in flight are delivered,
\* so an instance can become Leader beside a Leader, which then yields and
\* keeps its map.
\* ------------------------------------------------------------------------

RendererStatusRequests ==
    {[name |-> MSG_STATUS, state |-> Some("working"), pane |-> Some(42), tab |-> None],
     [name |-> MSG_STATUS, state |-> Some("idle"), pane |-> None, tab |-> Some("Bob")],
     [name |-> MSG_STATUS, state |-> Some("bogus"), pane |-> None, tab |-> Some("Bob")]}

RendererTellRequests ==
    {[name |-> MSG_TELL, to |-> Some("bob"), payload |-> Some("hi"), pane |-> Some(41),
      cli |-> TRUE],
     [name |-> MSG_TELL, to |-> None, payload |-> Some("hi"), pane |-> Some(41),
      cli |-> TRUE]}

RendererInit ==
    /\ alloc = IdleAlloc
    /\ config = [names |-> <<>>, mode |-> "RoundRobin", idle_sleep_secs |-> 0]
    /\ st = [i \in Instances |-> InitInstance("loaded")]
    /\ chan = [p \in Pairs |-> <<>>]
    /\ host = [tabs |-> CrewTabs, next_tab_id |-> 5, cmds |-> {},
               max_tabs |-> 4, max_open |-> 4,
               now |-> 0, panes |-> CrewPanes, requests |-> 0]

RendererNext ==
    \/ \E from, to \in Instances : Deliver(from, to)
    \/ \E i \in Instances : Timer(i)
    \/ Quiet /\ \E i \in Instances : PermissionGranted(i)
    \/ Quiet /\ \E i \in Instances : SnapshotChanged(i) /\ TabUpdate(i)
    \/ Quiet /\ \E i \in Instances : PaneUpdate(i)
    \/ Quiet /\ \E i \in Instances : ~st[i].is_leader /\ PaneRenderReport(i)
    \/ Quiet /\ \E i \in Instances :
                    ~st[i].is_leader /\ RequestFrom(i, RendererStatusRequests)
    \/ Quiet /\ \E i \in Instances :
                    ~st[i].is_leader /\ RequestFrom(i, RendererTellRequests)

SpecRenderer == RendererInit /\ [][RendererNext]_vars

\* ------------------------------------------------------------------------
\* Election runs: instances 5 and 9 are loaded in one session; each is
\* granted its permissions, elects, reconciles snapshots while Leader and
\* may be closed. Broadcasts wait in one queue per sender and receiver.
\* ------------------------------------------------------------------------

ElectInit ==
    /\ alloc = IdleAlloc
    /\ config = [names |-> ReconPool, mode |-> "RoundRobin", idle_sleep_secs |-> 0]
    /\ st = [i \in Instances |-> InitInstance("loaded")]
    /\ chan = [p \in Pairs |-> <<>>]
    /\ host = InitHost(1, 1)

\* an event whose broadcasts would overfill a queue waits for deliveries
QueuesBounded == \A p \in Pairs : Len(chan[p]) <= MaxQueue

ElectNext ==
    \/ (\E i \in Instances : PermissionGranted(i)) /\ QueuesBounded'
    \/ (\E i \in Instances : Timer(i)) /\ QueuesBounded'
    \/ (\E i \in Instances : SnapshotChanged(i) /\ TabUpdate(i)) /\ QueuesBounded'
    \/ (\E i \in Instances : BeforeClose(i)) /\ QueuesBounded'
    \/ (\E from, to \in Instances : Deliver(from, to)) /\ QueuesBounded'
    \/ HostApplyRename

SpecElect == ElectInit /\ [][ElectNext]_vars

\* ------------------------------------------------------------------------
\* Fault runs: instances 5 and 9 are loaded in a session of one tab; each is
\* granted or denied its permissions, and malformed protocol messages reach
\* them among the real ones; an event waits until the broadcasts of the
\* event before it are delivered
\* ------------------------------------------------------------------------

FaultNext ==
    \/ \E from, to \in Instances : Deliver(from, to)
    \/ Quiet /\ \E i \in Instances : PermissionGranted(i)
    \/ Quiet /\ \E i \in Instances : PermissionDenied(i)
    \/ Quiet /\ \E i \in Instances : Timer(i)
    \/ Quiet /\ \E i \in Instances : SnapshotChanged(i) /\ TabUpdate(i)
    \/ Quiet /\ \E i \in Instances : BeforeClose(i)
    \/ Quiet /\ \E i \in Instances : Malformed(i)
    \/ Quiet /\ HostApplyRename

SpecFaults == ElectInit /\ [][FaultNext]_vars

\* ------------------------------------------------------------------------
\* Allocator runs: the pool, the mode, the starting used set and cursor are
\* drawn at Init; Allocate calls the allocator and accepts the name into the
\* used set, Free removes a name from it (a tab closed or renamed).
\* ------------------------------------------------------------------------

RECURSIVE SeqsUpTo(_, _)
SeqsUpTo(S, n) ==
    IF n = 0
    THEN {<<>>}
    ELSE LET shorter == SeqsUpTo(S, n - 1)
         IN  shorter \cup {Append(s, x) : s \in shorter, x \in S}

\* names a used set may hold: pool names and one name outside every pool
UsedAlphabet == PoolAlphabet \cup {"Tab #1"}

Cursors(names) == {None} \cup {Some(i) : i \in 0..(Len(names) - 1)}

AllocInit ==
    /\ \E names \in SeqsUpTo(PoolAlphabet, MaxPool) :
       \E mode \in AllocationModes :
       \E used \in SUBSET UsedAlphabet :
       \E cursor \in Cursors(names) :
          alloc = [names |-> names, mode |-> mode,
                   used |-> used, cursor |-> cursor,
                   pristine |-> (used \cap Range(names) = {}),
                   cursor0 |-> cursor,
                   calls |-> 0, steps |-> 0,
                   used_before |-> used, cursor_before |-> cursor,
                   last_freed |-> None, freed_before |-> None,
                   result |-> None]
    /\ config = [names |-> <<>>, mode |-> "RoundRobin", idle_sleep_secs |-> 0]
    /\ st = [i \in Instances |-> InitInstance("absent")]
    /\ chan = [p \in Pairs |-> <<>>]
    /\ host = [tabs |-> EmptyMap, next_tab_id |-> 1, cmds |-> {},
               max_tabs |-> 0, max_open |-> 0,
               now |-> 0, panes |-> EmptyMap, requests |-> 0]

\* one call of allocate_from_pool; the caller puts the name into the used set
Allocate ==
    /\ alloc.steps < MaxCalls
    /\ LET r == allocate_from_pool(alloc.names, alloc.used, alloc.mode, alloc.cursor)
       IN  alloc' = [alloc EXCEPT
                        !.calls = @ + 1,
                        !.steps = @ + 1,
                        !.used_before = alloc.used,
                        !.cursor_before = alloc.cursor,
                        !.result = r.name,
                        !.freed_before = alloc.last_freed,
                        !.last_freed = None,
                        !.cursor = r.idx,
                        !.used = IF IsSome(r.name) THEN @ \cup {Unwrap(r.name)} ELSE @]
    /\ UNCHANGED <<config, st, chan, host>>

\* a name leaves the used set
Free ==
    /\ alloc.steps < MaxCalls
    /\ \E n \in alloc.used :
        alloc' = [alloc EXCEPT !.used = @ \ {n}, !.pristine = FALSE,
                               !.last_freed = Some(n),
                               !.steps = @ + 1]
    /\ UNCHANGED <<config, st, chan, host>>

AllocNext == Allocate \/ Free

SpecAlloc == AllocInit /\ [][AllocNext]_vars

\* ------------------------------------------------------------------------
\* Allocator laws (checked under SpecAlloc)
\* ------------------------------------------------------------------------

Distinct(names) == \A j, k \in 1..Len(names) : names[j] = names[k] => j = k

\* pool indices (1-based) of the names that were free when the last call ran
FreeBefore == {k \in 1..Len(alloc.names) : alloc.names[k] \notin alloc.used_before}

\* the cursor before the first call, an unset cursor counting as -1
Cursor0 == IF IsSome(alloc.cursor0) THEN Unwrap(alloc.cursor0) ELSE -1

C6_FillInMinimality ==
    (alloc.mode = "FillIn" /\ alloc.calls >= 1)
    => /\ alloc.cursor = alloc.cursor_before
       /\ IF FreeBefore = {}
          THEN alloc.result = None
          ELSE \E k \in FreeBefore :
                  /\ \A j \in FreeBefore : k <= j
                  /\ alloc.result = Some(alloc.names[k])

\* a name freed just before the call is handed out again although a later
\* pool name is unused as well
C6_Witness ==
    /\ alloc.mode = "FillIn"
    /\ alloc.calls >= 1
    /\ IsSome(alloc.freed_before)
    /\ alloc.result = alloc.freed_before
    /\ \E k \in FreeBefore : alloc.names[k] # Unwrap(alloc.result)

\* C7: in round-robin mode the allocator returns the first unused name found
\* scanning from cursor + 1 (wrapping) and moves the cursor to it; a name at
\* an index at or before the cursor is returned only when every name ahead of
\* the cursor is used.
C7_RoundRobinNoPreferentialReuse ==
    (alloc.mode = "RoundRobin" /\ alloc.calls >= 1 /\ IsSome(alloc.result))
    => LET N == Len(alloc.names)
           start == IF IsSome(alloc.cursor_before)
                    THEN Unwrap(alloc.cursor_before) + 1 ELSE 0
           idx == Unwrap(alloc.cursor)
           dist == (idx + 2 * N - start) % N
       IN  /\ IsSome(alloc.cursor)
           /\ alloc.names[idx + 1] = Unwrap(alloc.result)
           /\ Unwrap(alloc.result) \notin alloc.used_before
           /\ \A o \in 0..(dist - 1) :
                 alloc.names[((start + o) % N) + 1] \in alloc.used_before
           /\ (IsSome(alloc.cursor_before) /\ idx <= Unwrap(alloc.cursor_before))
              => \A j \in (Unwrap(alloc.cursor_before) + 1)..(N - 1) :
                    alloc.names[j + 1] \in alloc.used_before

\* a name at or before the cursor was freed just before the call, and the
\* call returns a later name instead
C7_Witness ==
    /\ alloc.mode = "RoundRobin"
    /\ alloc.calls >= 1
    /\ IsSome(alloc.freed_before)
    /\ IsSome(alloc.cursor_before)
    /\ IsSome(alloc.result)
    /\ Unwrap(alloc.freed_before) \notin alloc.used_before
    /\ alloc.result # alloc.freed_before
    /\ \E i \in 0..Unwrap(alloc.cursor_before) :
          alloc.names[i + 1] = Unwrap(alloc.freed_before)
    /\ Unwrap(alloc.cursor) > Unwrap(alloc.cursor_before)

\* C8: in both modes the allocator returns none exactly when every pool name
\* is in the used set (the empty pool included), and then the cursor is
\* unchanged.
C8_NoneIffExhausted ==
    (alloc.calls >= 1)
    => /\ (alloc.result = None) <=> (Range(alloc.names) \subseteq alloc.used_before)
       /\ (alloc.result = None) => (alloc.cursor = alloc.cursor_before)

\* a non-empty pool whose names are all used, asked in round-robin mode with
\* a set cursor
C8_Witness ==
    /\ alloc.calls >= 1
    /\ alloc.mode = "RoundRobin"
    /\ Len(alloc.names) > 0
    /\ IsSome(alloc.cursor_before)
    /\ Range(alloc.names) \subseteq alloc.used_before
    /\ alloc.result = None

\* ------------------------------------------------------------------------
\* Reconciliation laws (checked under SpecRecon and SpecPoolReturn)
\* ------------------------------------------------------------------------

\* the records of a Leader's map that hold an allocated name: not
\* user_defined, for a tab that is open
PoolRecords(i) ==
    {t \in DOMAIN st[i].known_tabs \cap OpenTabs : ~st[i].known_tabs[t].user_defined}

\* C1: at every point, no two open tabs whose records are not user_defined
\* hold the same pool name.
C1_NoDoubleAllocation ==
    \A i \in Instances :
        st[i].is_leader =>
            \A t, u \in PoolRecords(i) :
                (/\ t # u
                 /\ st[i].known_tabs[t].name \in Range(config.names))
                => st[i].known_tabs[t].name # st[i].known_tabs[u].name

\* C9: with pool [alpha, bravo, charlie], tabs T1, T2, T3 arriving with
\* default names are allocated alpha, bravo, charlie in that order; when T2
\* has disappeared and T4 arrives with a default name while T1 and T3 are
\* still there, T4 is allocated bravo, in both modes.
C9_PoolReturnScenario ==
    \A i \in Instances :
        LET log == st[i].g_log
            InOrder(k) == /\ k <= Len(log)
                          /\ log[k].tab_id = k
                          /\ log[k].pool_tabs = 1..(k - 1)
        IN  /\ \A k \in 1..3 : InOrder(k) => log[k].name = ScenarioPool[k]
            /\ (/\ Len(log) >= 4
                 /\ \A k \in 1..3 : InOrder(k)
                 /\ log[4].tab_id = 4
                 /\ log[4].pool_tabs = {1, 3})
                => log[4].name = "bravo"

\* C10: when a user renames a tab that holds a pool name, that tab's record
\* adopts the user's name and becomes user_defined, and the pool name it
\* held is available to the very next allocation.
C10_UserRenameReleasesName ==
    \A i \in Instances :
        st[i].is_leader /\ st[i].tabs # <<>> =>
            \A r \in st[i].g_user_renamed :
                (r[2] \in Range(config.names) /\ r[1] \in DOMAIN st[i].known_tabs)
                => LET ct == st[i].known_tabs[r[1]]
                   IN  /\ \E k \in 1..Len(st[i].tabs) :
                            /\ st[i].tabs[k].tab_id = r[1]
                            /\ st[i].tabs[k].name = ct.name
                       /\ ct.user_defined
                       /\ r[2] \notin UsedNames(st[i].known_tabs)

\* ------------------------------------------------------------------------
\* Election laws (checked under SpecElect)
\* ------------------------------------------------------------------------

Live(i) == st[i].phase = "granted"

\* no election is pending and no broadcast is undelivered
Stable ==
    /\ \A i \in Instances : ~st[i].election_pending
    /\ \A p \in Pairs : chan[p] = <<>>

Leaders == {i \in Instances : st[i].is_leader}

\* C2: instances 5 and 9 both start an election with no existing Leader;
\* whatever the order of their timer firings and of the deliveries of their
\* broadcasts, the stable outcome is that 9 is Leader and 5 is not.
C2_ElectionDeterminism ==
    (/\ \A i \in Instances :
            Live(i) /\ st[i].g_leaderless_start /\ st[i].timers = 0
     /\ Stable)
    => (st[9].is_leader /\ ~st[5].is_leader)

\* C3: at every stable point at which at least one live instance has
\* completed an election, exactly one instance has is_leader = true.
C3_ExactlyOneLeader ==
    (Stable /\ \E i \in Instances : Live(i) /\ st[i].g_completed)
    => Cardinality(Leaders) = 1

\* C4: when a Leader holding canonical map S resigns and another instance
\* wins the following election, the new Leader's canonical map equals S and
\* its reconciliation pass issues no allocation and no rename for a tab_id
\* of S.
C4_ResignationContinuity ==
    \A i, j \in Instances :
        (i # j /\ IsSome(st[j].g_resigned) /\ IsSome(st[i].g_adopted))
        => LET S == Unwrap(st[j].g_resigned)
               adopted == Unwrap(st[i].g_adopted)
           IN  /\ adopted.map = S
               /\ \A r \in adopted.renames : r[1] \notin DOMAIN S

\* ------------------------------------------------------------------------
\* Status, activity and tell laws (checked under SpecCrew)
\* ------------------------------------------------------------------------

\* the instance's last handler was op
LastOp(i, op) == st[i].g_fx.op = op

\* the last handler of instance i was a timer tick that ran the idle sweep
Swept(i) == LastOp(i, "timer") /\ st[i].g_fx.swept

\* at clock reading now the record is due for Sleeping: its status is
\* neither Sleeping nor Unknown, its status changed at least the threshold
\* ago, and so did its last terminal activity, or none was ever observed
SweepDue(ct, now) ==
    /\ ct.status \notin {"Sleeping", "Unknown"}
    /\ IsSome(ct.status_updated_at)
    /\ now - Unwrap(ct.status_updated_at) >= config.idle_sleep_secs
    /\ \/ ~IsSome(ct.last_activity_at)
       \/ now - Unwrap(ct.last_activity_at) >= config.idle_sleep_secs

\* C11: on a timer tick at a Leader whose idle threshold is greater than
\* zero, every known tab that is due (status neither Sleeping nor Unknown,
\* status age and activity age at or over the threshold, or activity never
\* observed) is set to Sleeping, and the status of no other tab changes.
C11_IdleSweep ==
    \A i \in Instances :
        Swept(i) =>
            LET before == st[i].g_fx.before_sweep
                after == st[i].known_tabs
            IN  /\ DOMAIN after = DOMAIN before
                /\ \A t \in DOMAIN before :
                     after[t].status = IF SweepDue(before[t], st[i].g_fx.req)
                                       THEN "Sleeping"
                                       ELSE before[t].status

\* a sweep put one tab to sleep whose activity had been observed, and left
\* alone another that was not due
C11_Witness ==
    \E i \in Instances :
        /\ Swept(i)
        /\ \E t \in DOMAIN st[i].known_tabs :
             /\ st[i].g_fx.before_sweep[t].status = "Working"
             /\ IsSome(st[i].g_fx.before_sweep[t].last_activity_at)
             /\ st[i].known_tabs[t].status = "Sleeping"

\* the tab ids of the session that hold terminal pane pane_id
TabsOfPane(pane_id) ==
    {t \in OpenTabs :
        LET pos == PositionOf(t, OpenTabs)
        IN  /\ pos \in DOMAIN host.panes
            /\ \E k \in 1..Len(host.panes[pos]) :
                 ~host.panes[pos][k].is_plugin /\ host.panes[pos][k].id = pane_id}

\* C12: whenever the Leader observes terminal output for a pane of a known
\* tab whose status is Sleeping, that tab's status becomes Idle in the same
\* handler and the new state is broadcast.
C12_WakeOnActivity ==
    \A i \in Instances :
        (LastOp(i, "output") /\ st[i].g_fx.pre.is_leader) =>
            \A t \in TabsOfPane(st[i].g_fx.req) \cap DOMAIN st[i].g_fx.pre.known_tabs :
                st[i].g_fx.pre.known_tabs[t].status = "Sleeping"
                => /\ st[i].known_tabs[t].status = "Idle"
                   /\ st[i].g_fx.out = broadcast_state(st[i])

\* the instance as its last handler left it, to set against g_fx.pre
Post(i) == [st[i] EXCEPT !.g_fx = NoFx]

\* the first terminal pane the Leader's manifest lists for a record's tab
DestPane(s, ct) ==
    IF IsSome(s.pane_manifest) /\ ct.position \in DOMAIN Unwrap(s.pane_manifest)
    THEN first_terminal_pane(Unwrap(s.pane_manifest)[ct.position])
    ELSE None

\* the records a tell to dest is for
Recipients(s, dest) ==
    {t \in DOMAIN s.known_tabs : eq_ignore_ascii_case(s.known_tabs[t].name, dest)}

\* the messaging scenario: a Leader that has delivered no message yet gets
\* a tell with a body, from a pane that resolves to Alice, for Bob, whose
\* first terminal pane is 42
TellScenario(i) ==
    LET pre == st[i].g_fx.pre
        req == st[i].g_fx.req
    IN  /\ LastOp(i, "tell")
        /\ pre.is_leader
        /\ pre.g_delivered = 0
        /\ IsSome(req.payload) /\ req.payload # Some("")
        /\ IsSome(req.pane) /\ resolve_pane_name(pre, Unwrap(req.pane)) = Some("Alice")
        /\ IsSome(req.to)
        /\ \E t \in Recipients(pre, Unwrap(req.to)) :
             /\ pre.known_tabs[t].name = "Bob"
             /\ DestPane(pre, pre.known_tabs[t]) = Some(42)

\* C13: in the messaging scenario the tell gets message id 1, writes one
\* formatted block to pane 42 and returns a confirmation naming Bob and
\* pane 42; a later timer event writes one submit keystroke to pane 42.
C13_MessagingScenario ==
    \A i \in Instances :
        /\ TellScenario(i) =>
            /\ st[i].g_fx.writes =
                    <<[pane |-> 42,
                       bytes |-> [id |-> 1, from |-> "Alice", to |-> "Bob",
                                  message |-> Unwrap(st[i].g_fx.req.payload)]]>>
            /\ st[i].g_fx.cli = <<[sent |-> 1, to |-> "Bob", pane |-> 42]>>
            /\ st[i].pending_tell_enter = Some(42)
            /\ st[i].timers > 0
        /\ (LastOp(i, "timer") /\ st[i].g_fx.pre.pending_tell_enter = Some(42)) =>
            /\ st[i].g_fx.writes = <<[pane |-> 42, bytes |-> "\r"]>>
            /\ st[i].pending_tell_enter = None

\* a tell that fails for one of the listed reasons: no recipient argument,
\* no body, no recipient tab, no pane manifest, no terminal pane in the
\* recipient's tab
TellFails(pre, req) ==
    \/ ~IsSome(req.to)
    \/ ~IsSome(req.payload) \/ req.payload = Some("")
    \/ Recipients(pre, Unwrap(req.to)) = {}
    \/ ~IsSome(pre.pane_manifest)
    \/ \A t \in Recipients(pre, Unwrap(req.to)) :
            ~IsSome(DestPane(pre, pre.known_tabs[t]))

\* C14: a tell that fails for any of the listed reasons writes nothing to
\* any pane, returns an error to the caller and leaves the Leader's state
\* unchanged, the message-id counter, the pending keystroke and every tab
\* record included.
C14_FailedTellChangesNothing ==
    \A i \in Instances :
        (/\ LastOp(i, "tell")
         /\ st[i].g_fx.pre.is_leader
         /\ TellFails(st[i].g_fx.pre, st[i].g_fx.req))
        => /\ st[i].g_fx.writes = <<>>
           /\ Len(st[i].g_fx.cli) = 1
           /\ "error" \in DOMAIN st[i].g_fx.cli[1]
           /\ Post(i) = st[i].g_fx.pre

\* the seven status keywords
RecognizedKeywords ==
    {"unknown", "idle", "working", "question", "sleeping", "watching", "attention"}

\* the records a status request is for: by pane when it has a pane id, else
\* by name
TargetTabs(s, req) ==
    IF IsSome(req.pane)
    THEN LET tab_pos == pane_tab_position(s.pane_manifest, Unwrap(req.pane))
             tab_id == IF IsSome(tab_pos) THEN tab_id_at(s.tabs, Unwrap(tab_pos)) ELSE None
         IN  IF IsSome(tab_id) THEN {Unwrap(tab_id)} \cap DOMAIN s.known_tabs ELSE {}
    ELSE IF IsSome(req.tab)
    THEN tabs_named(s.known_tabs, Unwrap(req.tab))
    ELSE {}

\* the last handler at i was a status update with a keyword, handled by a Leader
StatusAttempt(i) ==
    /\ LastOp(i, "status")
    /\ st[i].g_fx.pre.is_leader
    /\ IsSome(st[i].g_fx.req.state)
    /\ IsSome(st[i].g_fx.req.pane) \/ IsSome(st[i].g_fx.req.tab)

\* a status update that asks for the status its tab already has
SameStatus(i) ==
    /\ StatusAttempt(i)
    /\ Unwrap(st[i].g_fx.req.state) \in RecognizedKeywords
    /\ \E t \in TargetTabs(st[i].g_fx.pre, st[i].g_fx.req) :
          st[i].g_fx.pre.known_tabs[t].status
              = StatusOfKeyword[Unwrap(st[i].g_fx.req.state)]

\* C15: a status update, by pane id or by tab name, that asks for the
\* status the tab already has changes no record (status and
\* status_updated_at stay), sends no state broadcast and returns false.
C15_SameStatusNoOp ==
    \A i \in Instances :
        SameStatus(i) =>
            /\ Post(i).known_tabs = st[i].g_fx.pre.known_tabs
            /\ st[i].g_fx.out = <<>>
            /\ ~st[i].g_fx.ret

\* a same-status update by name reaches a tab whose status was set at an
\* earlier second
C15_Witness ==
    \E i \in Instances :
        /\ SameStatus(i)
        /\ IsSome(st[i].g_fx.req.tab)
        /\ \E t \in TargetTabs(st[i].g_fx.pre, st[i].g_fx.req) :
              /\ st[i].known_tabs[t].status = "Working"
              /\ IsSome(st[i].known_tabs[t].status_updated_at)
              /\ Unwrap(st[i].known_tabs[t].status_updated_at) < host.now

\* C16: a status update with a keyword outside the seven changes no tab
\* record and sends no state broadcast; a status update with one of the
\* seven keywords that finds its tab leaves the tab with the status asked
\* for, whatever status it had.
C16_KeywordsOnly ==
    \A i \in Instances :
        /\ (StatusAttempt(i) /\ Unwrap(st[i].g_fx.req.state) \notin RecognizedKeywords)
            => /\ Post(i).known_tabs = st[i].g_fx.pre.known_tabs
               /\ st[i].g_fx.out = <<>>
        /\ (StatusAttempt(i) /\ Unwrap(st[i].g_fx.req.state) \in RecognizedKeywords)
            => \A t \in TargetTabs(st[i].g_fx.pre, st[i].g_fx.req) :
                 st[i].known_tabs[t].status
                     = StatusOfKeyword[Unwrap(st[i].g_fx.req.state)]
        /\ st[i].is_leader
            => \A req \in StatusRequests :
                 (IsSome(req.state) /\ Unwrap(req.state) \in RecognizedKeywords)
                 => \A t \in TargetTabs(st[i], req) :
                      handle_external_status_update(st[i], req).s.known_tabs[t].status
                          = StatusOfKeyword[Unwrap(req.state)]

\* an unrecognized keyword reaches a tab that an earlier update has set to
\* Attention
C16_Witness ==
    \E i \in Instances :
        /\ StatusAttempt(i)
        /\ st[i].g_fx.req.state = Some("bogus")
        /\ \E t \in TargetTabs(st[i].g_fx.pre, st[i].g_fx.req) :
              st[i].known_tabs[t].status = "Attention"

\* C17: every status update a Leader handles, whether it changes the
\* status, changes nothing or fails, appends exactly one record to the
\* audit log.
C17_OneAuditRecord ==
    \A i \in Instances :
        StatusAttempt(i) => Len(st[i].g_fx.logged) = 1

\* role, election_pending flag, Renderer cache, inherited state and
\* canonical map of an instance
ElectionView(s) ==
    <<s.is_leader, s.election_pending, s.received_tabs, s.inherited_state, s.known_tabs>>

\* C18: a ping, ack, claim, resign or crew-state message whose payload is
\* missing or unparseable, or lacks a well-formed id or state, is dropped:
\* role, election_pending, Renderer cache, inherited state and canonical map
\* of the receiving instance are what they were.
C18_MalformedDropped ==
    \A i \in Instances :
        LastOp(i, "malformed") => ElectionView(st[i]) = ElectionView(st[i].g_fx.pre)

\* C19: an instance whose permission request was denied never has an
\* election pending and is never Leader, whatever events reach it afterwards.
C19_DeniedIsInert ==
    \A i \in Instances :
        st[i].phase = "denied" => ~st[i].election_pending /\ ~st[i].is_leader

\* the "crew-state" broadcasts of instance i that are in flight
StateBroadcasts(ch, i) ==
    [j \in Instances |-> Len(SelectSeq(ch[<<i, j>>], IsCrewState))]

\* an event or request was handled by instance i while it was no Leader,
\* and did not make it one
HandledAsRenderer(i) ==
    /\ st[i].g_fx.op \in {"status", "tell", "panes", "output"}
    /\ ~st[i].g_fx.pre.is_leader

\* C20: an instance that is not Leader, and does not become Leader in the
\* step, keeps its canonical map and pane manifest and puts no crew-state
\* broadcast in flight; a status or msg request, pane snapshot or terminal
\* output it handles gets no reply, writes to no pane and leaves its state
\* as it was.
C20_RendererNeverWrites ==
    /\ [][\A i \in Instances :
            (~st[i].is_leader /\ ~st'[i].is_leader)
            => /\ st'[i].known_tabs = st[i].known_tabs
               /\ st'[i].pane_manifest = st[i].pane_manifest
               /\ \A j \in Instances :
                     StateBroadcasts(chan', i)[j] <= StateBroadcasts(chan, i)[j]]_vars
    /\ [](\A i \in Instances :
            HandledAsRenderer(i)
            => /\ st[i].g_fx.cli = <<>>
               /\ st[i].g_fx.writes = <<>>
               /\ st[i].g_fx.out = <<>>
               /\ Post(i) = st[i].g_fx.pre)

\* a former Leader that yielded, with tab records and a pane manifest, has
\* been sent a status request
C20_Witness ==
    \E i \in Instances :
        /\ LastOp(i, "status")
        /\ ~st[i].g_fx.pre.is_leader
        /\ DOMAIN st[i].known_tabs # {}
        /\ IsSome(st[i].pane_manifest)

\* C21: with idle_sleep_secs = 0 no timer event sets a tab to Sleeping (the
\* sweep does not run and the records it would look at stay as they are)
\* and the handler arms no timer: the timers armed after it are those
\* armed before it.
C21_ZeroThresholdNoSweep ==
    \A i \in Instances :
        (config.idle_sleep_secs = 0 /\ LastOp(i, "timer"))
        => /\ ~st[i].g_fx.swept
           /\ st[i].known_tabs = st[i].g_fx.before_sweep
           /\ \A t \in DOMAIN st[i].known_tabs :
                 st[i].known_tabs[t].status = "Sleeping"
                 => /\ t \in DOMAIN st[i].g_fx.pre.known_tabs
                    /\ st[i].g_fx.pre.known_tabs[t].status = "Sleeping"
           /\ st[i].timers = st[i].g_fx.pre.timers

\* a timer event reaches a Leader that has a Working tab whose status was
\* set at an earlier second
C21_Witness ==
    \E i \in Instances :
        /\ config.idle_sleep_secs = 0
        /\ LastOp(i, "timer")
        /\ st[i].g_fx.pre.is_leader
        /\ \E t \in DOMAIN st[i].known_tabs :
              /\ st[i].known_tabs[t].status = "Working"
              /\ IsSome(st[i].known_tabs[t].status_updated_at)
              /\ Unwrap(st[i].known_tabs[t].status_updated_at) < host.now

\* the role of an instance, read from is_leader and election_pending; an
\* instance that has not had its permission result yet is Uninitialized
Role(s) ==
    IF s.is_leader /\ s.election_pending THEN "LeaderAndElectionPending"
    ELSE IF s.is_leader THEN "Leader"
    ELSE IF s.election_pending THEN "ElectionPending"
    ELSE IF s.phase \in {"absent", "loaded"} THEN "Uninitialized"
    ELSE "Renderer"

\* the role changes of the election state machine
RoleChanges ==
    {<<"Uninitialized", "ElectionPending">>,
     <<"ElectionPending", "Leader">>,
     <<"ElectionPending", "Renderer">>,
     <<"Leader", "Renderer">>,
     <<"Renderer", "ElectionPending">>}

\* C22: the role of an instance changes only along Uninitialized ->
\* ElectionPending -> Leader or Renderer, Leader -> Renderer and Renderer ->
\* ElectionPending, and no instance is Leader with an election pending.
C22_ElectionStateMachine ==
    /\ [](\A i \in Instances : ~(st[i].is_leader /\ st[i].election_pending))
    /\ [][\A i \in Instances :
            Role(st'[i]) # Role(st[i]) => <<Role(st[i]), Role(st'[i])>> \in RoleChanges]_vars

\* the last handler at i was a timer event that found an election pending
ElectionTimer(i) == LastOp(i, "timer") /\ st[i].g_fx.pre.election_pending

\* the map a new Leader starts from: the inherited state if one is stored
AdoptedMap(pre) ==
    IF IsSome(pre.inherited_state) THEN Unwrap(pre.inherited_state) ELSE pre.known_tabs

\* the map after one reconciliation pass of the new Leader over its
\* buffered snapshot, when it has one
ReconciledMap(pre) ==
    IF pre.tabs # <<>>
    THEN handle_leader_tab_update(
             [pre EXCEPT !.is_leader = TRUE, !.election_pending = FALSE,
                         !.known_tabs = AdoptedMap(pre), !.inherited_state = None],
             pre.tabs).s.known_tabs
    ELSE AdoptedMap(pre)

\* C23: a timer event at an instance whose election is pending makes it
\* Leader, replaces its map with the inherited state if one is stored and
\* clears that, broadcasts one CLAIM with its own id, and runs one
\* reconciliation pass over the buffered snapshot when that is non-empty.
C23_ElectionTimeout ==
    \A i \in Instances :
        ElectionTimer(i)
        => /\ st[i].is_leader
           /\ ~st[i].election_pending
           /\ st[i].inherited_state = None
           /\ SelectSeq(st[i].g_fx.out, LAMBDA m : m.name = MSG_LEADER_CLAIM)
                 = <<[name |-> MSG_LEADER_CLAIM, plugin_id |-> i, state |-> {}]>>
           /\ st[i].known_tabs = ReconciledMap(st[i].g_fx.pre)

\* the election timer fires at an instance that holds an inherited state
\* other than its own map and a buffered snapshot
C23_Witness ==
    \E i \in Instances :
        /\ ElectionTimer(i)
        /\ IsSome(st[i].g_fx.pre.inherited_state)
        /\ Unwrap(st[i].g_fx.pre.inherited_state) # st[i].g_fx.pre.known_tabs
        /\ st[i].g_fx.pre.tabs # <<>>

\* this step delivers the message at the head of the queue from instance
\* from to instance i
Delivers(from, i) ==
    /\ from # i
    /\ chan[<<from, i>>] # <<>>
    /\ chan'[<<from, i>>] = Tail(chan[<<from, i>>])
    /\ st'[i].phase = st[i].phase

\* this step delivers a message named name to instance i
DeliversNamed(name, from, i) ==
    Delivers(from, i) /\ Head(chan[<<from, i>>]).name = name

\* the program state of an instance: its fields without the history fields
ProgramState(s) ==
    [f \in {"is_leader", "election_pending", "known_tabs", "last_assigned_idx",
            "inherited_state", "pane_manifest", "pending_tell_enter", "next_msg_id",
            "received_tabs", "tabs", "timers"} |-> s[f]]

\* C24: a CLAIM with an id above the receiver's makes a Leader stop being
\* Leader and an elector cancel its election; a CLAIM with a lower or equal
\* id changes nothing; and is_leader turns false in no step other than the
\* delivery of such a CLAIM or the instance's own resignation.
C24_ClaimYield ==
    [][\A i \in Instances :
        /\ \A from \in Instances :
              DeliversNamed(MSG_LEADER_CLAIM, from, i)
              => IF plugin_id_of(Head(chan[<<from, i>>])) > i
                 THEN ProgramState(st'[i]) =
                        [ProgramState(st[i]) EXCEPT !.is_leader = FALSE,
                                                    !.election_pending = FALSE]
                 ELSE ProgramState(st'[i]) = ProgramState(st[i])
        /\ (st[i].is_leader /\ ~st'[i].is_leader)
            => \/ st'[i].phase = "closed"
               \/ \E from \in Instances :
                     /\ DeliversNamed(MSG_LEADER_CLAIM, from, i)
                     /\ plugin_id_of(Head(chan[<<from, i>>])) > i]_vars

\* a running instance that holds tab records and is not Leader: a Leader
\* that yielded to a CLAIM
C24_Witness ==
    \E i \in Instances :
        /\ st[i].phase = "granted"
        /\ ~st[i].is_leader
        /\ DOMAIN st[i].known_tabs # {}

\* the messages this step adds to the queue from i to j
Sent(i, j) ==
    IF Len(chan'[<<i, j>>]) >= Len(chan[<<i, j>>])
    THEN SubSeq(chan'[<<i, j>>], Len(chan[<<i, j>>]) + 1, Len(chan'[<<i, j>>]))
    ELSE <<>>

\* this step is the shutdown notice (BeforeClose) of instance i
Closes(i) == st[i].phase = "granted" /\ st'[i].phase = "closed"

\* the canonical map a protocol message carries
CarriedMap(msg) == CollectByTabId(DeserializeState(msg.state))

C26_PingAck ==
    [][\A i \in Instances : \A from \in Instances :
        /\ (DeliversNamed(MSG_LEADER_PING, from, i) /\ st[i].is_leader
               /\ plugin_id_of(Head(chan[<<from, i>>])) # i)
            => /\ \A j \in Instances \ {i} :
                     Listening(j)
                     => Sent(i, j) = <<[name |-> MSG_LEADER_ACK, plugin_id |-> i,
                                        state |-> SerializeState(st[i].known_tabs)]>>
               /\ ProgramState(st'[i]) = ProgramState(st[i])
        /\ (DeliversNamed(MSG_LEADER_ACK, from, i)
               /\ plugin_id_of(Head(chan[<<from, i>>])) # i)
            => IF st[i].election_pending /\ ~st[i].is_leader
               THEN /\ ~st'[i].election_pending
                    /\ ~st'[i].is_leader
                    /\ st'[i].received_tabs =
                          DeserializeState(Head(chan[<<from, i>>]).state)
                    /\ ProgramState(st'[i]) =
                          [ProgramState(st[i]) EXCEPT
                             !.election_pending = FALSE,
                             !.received_tabs = st'[i].received_tabs]
               ELSE ~st[i].election_pending
                    => ProgramState(st'[i]) = ProgramState(st[i])]_vars

\* a Leader has answered a PING: its ACK, with a record in it, is the next
\* message for an instance that is no Leader and has an election pending
C26_Witness ==
    \E i \in Instances : \E from \in Instances \ {i} :
        /\ st[i].phase = "granted"
        /\ st[i].election_pending /\ ~st[i].is_leader
        /\ chan[<<from, i>>] # <<>>
        /\ Head(chan[<<from, i>>]).name = MSG_LEADER_ACK
        /\ Head(chan[<<from, i>>]).plugin_id = from
        /\ Head(chan[<<from, i>>]).state # {}

\* this step hands instance i a tab snapshot
TabSnapshotAt(i) == st'[i].tabs # st[i].tabs

\* C27: a tab snapshot at an instance that is not Leader and has no
\* election pending starts an election exactly when it is the first
\* snapshot of the instance and no ACK and no state broadcast has reached
\* the instance since its load.
C27_FallbackElection ==
    [][\A i \in Instances :
        (TabSnapshotAt(i) /\ ~st[i].is_leader /\ ~st[i].election_pending)
        => (st'[i].election_pending
              <=> (st[i].tabs = <<>> /\ ~st[i].g_leader_seen))]_vars

\* this step delivers a state broadcast to instance i, from another
\* instance or from i itself
DeliversBroadcast(from, i) ==
    /\ chan[<<from, i>>] # <<>>
    /\ Head(chan[<<from, i>>]).name = MSG_CREW_STATE
    /\ chan'[<<from, i>>] = Tail(chan[<<from, i>>])
    /\ st'[i].phase = st[i].phase

\* C28: a state broadcast delivered to an instance that is not Leader
\* replaces its Renderer cache by the snapshot the broadcast carries and
\* cancels its election, and changes nothing else; delivered to a Leader it
\* changes nothing; in both cases the receiver sends nothing.
C28_StateBroadcast ==
    [][\A i \in Instances : \A from \in Instances :
        DeliversBroadcast(from, i)
        => /\ \A j \in Instances \ {from} : Sent(i, j) = <<>>
           /\ IF st[i].is_leader
              THEN ProgramState(st'[i]) = ProgramState(st[i])
              ELSE ProgramState(st'[i]) =
                     [ProgramState(st[i]) EXCEPT
                        !.election_pending = FALSE,
                        !.received_tabs =
                            DeserializeState(Head(chan[<<from, i>>]).state)]]_vars

\* a state broadcast is about to reach an elector whose cache holds other
\* records than the broadcast carries, and another one is about to reach a
\* Leader
C28_Witness ==
    /\ \E i \in Instances : \E from \in Instances \ {i} :
          /\ st[i].phase = "granted"
          /\ ~st[i].is_leader /\ st[i].election_pending
          /\ chan[<<from, i>>] # <<>>
          /\ Head(chan[<<from, i>>]).name = MSG_CREW_STATE
          /\ st[i].received_tabs # {}
          /\ st[i].received_tabs # DeserializeState(Head(chan[<<from, i>>]).state)
    /\ \E i \in Instances : \E from \in Instances :
          /\ st[i].phase = "granted"
          /\ st[i].is_leader
          /\ chan[<<from, i>>] # <<>>
          /\ Head(chan[<<from, i>>]).name = MSG_CREW_STATE

\* ------------------------------------------------------------------------
\* Confirmation runs: the reconciliation runs in which the host reports
\* every change of its tabs, in order: a tab changes once the running
\* instance holds the snapshot of the last change, and every enabled step
\* of the program and every report of the host is eventually taken
\* ------------------------------------------------------------------------

\* the number of tabs the session of a confirmation run opens
MaxConfirmTabs == 2

ConfirmInit ==
    /\ alloc = IdleAlloc
    /\ \E mode \in AllocationModes :
        config = [names |-> ReconPool, mode |-> mode, idle_sleep_secs |-> 0]
    /\ st = [i \in Instances |-> InitInstance(IF i = 5 THEN "loaded" ELSE "absent")]
    /\ chan = [p \in Pairs |-> <<>>]
    /\ host = InitHost(MaxConfirmTabs, MaxConfirmTabs)

\* every running instance holds the current snapshot
Reported == \A i \in Instances : Listening(i) => ~SnapshotChanged(i)

ReportedTabUpdate == \E i \in Instances : SnapshotChanged(i) /\ TabUpdate(i)

ConfirmNext ==
    \/ \E from, to \in Instances : Deliver(from, to)
    \/ Quiet /\ \E i \in Instances : PermissionGranted(i)
    \/ Quiet /\ \E i \in Instances : Timer(i)
    \/ Quiet /\ ReportedTabUpdate
    \/ Quiet /\ Reported /\ HostOpenDefaultTab
    \/ Quiet /\ Reported /\ HostOpenNamedTab
    \/ Quiet /\ Reported /\ HostCloseTab
    \/ Quiet /\ Reported /\ HostUserRename
    \/ Quiet /\ Reported /\ HostApplyRename

\* a report is due: the enabling condition of Quiet /\ ReportedTabUpdate
ReportDue == Quiet /\ \E i \in Instances : Listening(i) /\ SnapshotChanged(i)

\* Deliveries are weakly fair, and so are reports: a report step ends
\* ReportDue (the one running instance then holds the current snapshot), so
\* WF_vars(Quiet /\ ReportedTabUpdate) is the condition that no report stays
\* due forever, []<>~ReportDue.
SpecConfirm ==
    /\ ConfirmInit
    /\ [][ConfirmNext]_vars
    /\ WF_vars(\E from, to \in Instances : Deliver(from, to))
    /\ []<>~ReportDue

\* the snapshot entry of tab t, None when the snapshot has none
SnapshotEntry(tabs, t) ==
    IF \E k \in 1..Len(tabs) : tabs[k].tab_id = t
    THEN Some(tabs[CHOOSE k \in 1..Len(tabs) : tabs[k].tab_id = t])
    ELSE None

\* this step hands Leader i a snapshot that reports for tab t the name its
\* record has pending
Confirms(i, t) ==
    /\ st[i].is_leader
    /\ TabSnapshotAt(i)
    /\ t \in DOMAIN st[i].known_tabs
    /\ IsSome(st[i].known_tabs[t].pending_rename)
    /\ IsSome(SnapshotEntry(st'[i].tabs, t))
    /\ Unwrap(SnapshotEntry(st'[i].tabs, t)).name
          = Unwrap(st[i].known_tabs[t].pending_rename)

\* Leader i has issued for tab t the rename to name n and has not seen it
\* confirmed
RenamePending(i, t, n) ==
    /\ st[i].phase = "granted" /\ st[i].is_leader
    /\ t \in DOMAIN st[i].known_tabs
    /\ st[i].known_tabs[t].pending_rename = Some(n)

\* C29: a snapshot that reports for a recorded tab the name its record has
\* pending makes the record store that name and the reported position,
\* clear pending_rename and keep user_defined = false; and whenever the
\* host shows for a tab the name a Leader has pending for it, that record
\* eventually has no pending rename (or is gone, the tab being closed).
C29_RenameConfirmation ==
    /\ [][\A i \in Instances : \A t \in 1..MaxConfirmTabs :
            Confirms(i, t)
            => LET tab == Unwrap(SnapshotEntry(st'[i].tabs, t))
               IN  /\ t \in DOMAIN st'[i].known_tabs
                   /\ st'[i].known_tabs[t] =
                         [st[i].known_tabs[t] EXCEPT
                            !.name = tab.name,
                            !.position = tab.position,
                            !.pending_rename = None]
                   /\ ~st'[i].known_tabs[t].user_defined]_vars
    /\ \A i \in Instances : \A t \in 1..MaxConfirmTabs : \A n \in Range(ReconPool) :
          (RenamePending(i, t, n) /\ t \in OpenTabs /\ host.tabs[t] = n)
          ~> ~RenamePending(i, t, n)

\* the host has carried out a rename the Leader still has pending, and the
\* snapshot that shows it is due
C29_Witness ==
    \E i \in Instances : \E t \in OpenTabs : \E n \in Range(ReconPool) :
        /\ RenamePending(i, t, n)
        /\ host.tabs[t] = n
        /\ SnapshotChanged(i)

\* this step runs a reconciliation pass at instance i: i ends the step as
\* Leader, holds a snapshot and has broadcast its state (in these runs a
\* Leader broadcasts after the pass over a snapshot handed to it and on
\* becoming Leader, when it runs a pass over the snapshot it holds)
PassAt(i) ==
    /\ st'[i].phase = "granted" /\ st'[i].is_leader
    /\ st'[i].tabs # <<>>
    /\ Sent(i, i) # <<>>

\* the canonical map of instance i when the step starts: the map of a
\* Leader, the map an elector is about to adopt
PassMap(i) == IF st[i].is_leader THEN st[i].known_tabs ELSE AdoptedMap(st[i])

\* the snapshot the pass reconciles
PassSnapshot(i) == st'[i].tabs

\* the rename commands instance i issues in this step, as logged
RenamesIssued(i) ==
    {st'[i].g_log[k] : k \in (Len(st[i].g_log) + 1)..Len(st'[i].g_log)}

\* C30: a rename command for a tab is issued only by a reconciliation pass
\* of a Leader that starts without a record of the tab and ends with one
\* that has the requested name pending; and a pass that finds a record with
\* a pending rename and a snapshot name other than the pending one changes
\* nothing of the record but its position.
C30_RenameOnlyWhenAdded ==
    [][\A i \in Instances :
        /\ \A r \in RenamesIssued(i) :
              /\ PassAt(i)
              /\ r.tab_id \notin DOMAIN PassMap(i)
              /\ r.tab_id \in DOMAIN st'[i].known_tabs
              /\ st'[i].known_tabs[r.tab_id].pending_rename = Some(r.name)
        /\ PassAt(i) =>
              \A t \in DOMAIN PassMap(i) :
                 LET ct == PassMap(i)[t]
                     e == SnapshotEntry(PassSnapshot(i), t)
                 IN  (IsSome(ct.pending_rename) /\ IsSome(e)
                        /\ Unwrap(e).name # Unwrap(ct.pending_rename))
                     => /\ t \in DOMAIN st'[i].known_tabs
                        /\ st'[i].known_tabs[t] =
                              [ct EXCEPT !.position = Unwrap(e).position]]_vars

\* the tab_ids of a snapshot
SnapshotIds(tabs) == {tabs[k].tab_id : k \in 1..Len(tabs)}

\* C31: after every reconciliation pass the tab_ids of the canonical map
\* are exactly the tab_ids of the snapshot: a new tab with a default name
\* that finds the pool exhausted is recorded with its default name and no
\* pending rename.
C31_ExhaustedPoolRecordsTab ==
    \A i \in Instances :
        (st[i].phase = "granted" /\ st[i].is_leader /\ st[i].tabs # <<>>)
        => DOMAIN st[i].known_tabs = SnapshotIds(st[i].tabs)

\* ------------------------------------------------------------------------
\* Tell runs: one instance is elected Leader of the session of the crew
\* runs, with idle_sleep_secs = 0 (the only timers are the election timer
\* and the timers the tells set); messages are sent to Alice (terminal 41),
\* to Bob (terminal 42) and to Carol, who has no terminal
\* ------------------------------------------------------------------------

TellRunRequests ==
    {[name |-> MSG_TELL, to |-> Some(to), payload |-> Some("hi"), pane |-> Some(44),
      cli |-> TRUE] : to \in {"alice", "bob", "Carol"}}

TellRunNext ==
    \/ \E from, to \in Instances : Deliver(from, to)
    \/ Quiet /\ \E i \in Instances : PermissionGranted(i)
    \/ Quiet /\ \E i \in Instances : Timer(i)
    \/ Quiet /\ \E i \in Instances : SnapshotChanged(i) /\ TabUpdate(i)
    \/ Quiet /\ \E i \in Instances : PaneUpdate(i)
    \/ Quiet /\ \E i \in Instances :
                    st[i].next_msg_id < MaxMsgs /\ RequestFrom(i, TellRunRequests)
    \/ Quiet /\ Tick

SpecTell == NoSweepInit /\ [][TellRunNext]_vars

\* the writes of instance i to panes, in order: a message text carries its
\* message id (1 or more), a submit keystroke is written with id 0
IsText(w) == w.id > 0

IsKey(w) == w.id = 0

\* C32: every keystroke written to a pane follows a text written to that
\* pane, with no other keystroke to the pane between the two; and once every
\* timer that was set has fired, every text written to a pane has been
\* followed by a keystroke to that pane.
C32_TellSubmit ==
    \A i \in Instances :
        LET w == st[i].g_pane_writes
        IN  /\ \A k \in 1..Len(w) :
                  IsKey(w[k])
                  => \E j \in 1..(k - 1) :
                        /\ IsText(w[j]) /\ w[j].pane = w[k].pane
                        /\ \A m \in (j + 1)..(k - 1) :
                              ~(IsKey(w[m]) /\ w[m].pane = w[k].pane)
            /\ st[i].timers = 0
               => \A j \in 1..Len(w) :
                     IsText(w[j])
                     => \E k \in (j + 1)..Len(w) :
                           IsKey(w[k]) /\ w[k].pane = w[j].pane

\* C33: the ids of the messages one instance has delivered are strictly
\* increasing in the order of delivery, so no two delivered messages share
\* an id.
C33_MessageIdsIncrease ==
    \A i \in Instances :
        LET w == st[i].g_pane_writes
        IN  \A j, k \in 1..Len(w) :
               (j < k /\ IsText(w[j]) /\ IsText(w[k])) => w[j].id < w[k].id

\* an instance has delivered two messages
C33_Witness ==
    \E i \in Instances :
        LET w == st[i].g_pane_writes
        IN  \E j, k \in 1..Len(w) : j < k /\ IsText(w[j]) /\ IsText(w[k])

\* C34: the pool names one reconciliation pass requests for new tabs are
\* pairwise distinct, and none is the name an open tab of the map has
\* pending when the pass starts.
C34_DistinctRequests ==
    [][\A i \in Instances : \A r \in RenamesIssued(i) :
        /\ \A q \in RenamesIssued(i) : q.tab_id # r.tab_id => q.name # r.name
        /\ \A t \in DOMAIN PassMap(i) \cap SnapshotIds(PassSnapshot(i)) :
              t # r.tab_id => PassMap(i)[t].pending_rename # Some(r.name)]_vars

\* the pool names that the rename commands of all instances have requested
\* for tab t
RequestedNames(t) ==
    UNION {{st[i].g_log[k].name :
              k \in {m \in 1..Len(st[i].g_log) : st[i].g_log[m].tab_id = t}} :
           i \in Instances}

\* the canonical map a reconciliation pass of this step starts from: the
\* map of the instance when the step hands it a snapshot, the map it adopts
\* when the step is its election timer
PassStart(i) == IF TabSnapshotAt(i) THEN st[i].known_tabs ELSE AdoptedMap(st[i])

\* C35: a record that is not user_defined becomes user_defined only in a
\* pass whose snapshot reports for the tab a name that no pool allocation
\* has requested for it, also when the record has come to the Leader in a
\* RESIGN.
C35_UserDefinedOnlyByUserRename ==
    [][\A i \in Instances :
        PassAt(i) =>
          \A t \in DOMAIN PassStart(i) \cap DOMAIN st'[i].known_tabs :
             (~PassStart(i)[t].user_defined /\ st'[i].known_tabs[t].user_defined)
             => /\ IsSome(SnapshotEntry(PassSnapshot(i), t))
                /\ Unwrap(SnapshotEntry(PassSnapshot(i), t)).name
                      \notin RequestedNames(t)]_vars

\* C36: in a step in which an instance is Leader before and after, its
\* canonical map changes only by a reconciliation pass over its own map
\* (these runs have no status updates, activity events and tells); in
\* particular the map carried by a RESIGN never replaces it.
C36_LeaderOwnsMap ==
    [][\A i \in Instances :
        (/\ st[i].is_leader /\ st'[i].is_leader
         /\ st'[i].known_tabs # st[i].known_tabs)
        => /\ st'[i].tabs # <<>>
           /\ st'[i].known_tabs =
                 handle_leader_tab_update(st[i], st'[i].tabs).s.known_tabs]_vars

\* ------------------------------------------------------------------------
\* Shared-tell runs: instances 5 and 9 are both loaded in the session of the
\* crew runs; a tell request is piped without a destination plugin, so the
\* host hands it to every running instance. A timer may fire before the
\* broadcasts in flight are delivered.
\* ------------------------------------------------------------------------

\* zellij pipe --name zellij-crew:msg: every running instance handles req
TellAll ==
    /\ \E i \in Instances : st[i].phase = "granted"
    /\ \A i \in Instances : st[i].next_msg_id < MaxMsgs
    /\ \E req \in TellRunRequests :
        st' = [i \in Instances |->
                 IF st[i].phase = "granted"
                 THEN LET e == pipe(st[i], i, req)
                      IN  [e.s EXCEPT !.g_fx = IF "fx" \in DOMAIN e THEN e.fx ELSE NoFx]
                 ELSE st[i]]
    /\ UNCHANGED <<alloc, config, chan, host>>

SharedTellNext ==
    \/ \E from, to \in Instances : Deliver(from, to)
    \/ \E i \in Instances : Timer(i)
    \/ Quiet /\ \E i \in Instances : PermissionGranted(i)
    \/ Quiet /\ \E i \in Instances : SnapshotChanged(i) /\ TabUpdate(i)
    \/ Quiet /\ \E i \in Instances : PaneUpdate(i)
    \/ Quiet /\ TellAll

SpecSharedTell == RendererInit /\ [][SharedTellNext]_vars

\* the instances that write a message text to a pane in this step
TextWriters ==
    {i \in Instances :
        /\ Len(st'[i].g_pane_writes) > Len(st[i].g_pane_writes)
        /\ IsText(st'[i].g_pane_writes[Len(st'[i].g_pane_writes)])}

\* C37: a tell request handed to every running instance makes at most one
\* of them write the message text to the destination pane.
C37_OneWritePerTell == [][Cardinality(TextWriters) <= 1]_vars

\* ------------------------------------------------------------------------
\* Resignation runs: the election runs under fair scheduling. A timer that
\* was set fires, and a message that waits in a queue is delivered.
\* ------------------------------------------------------------------------

\* a message waits for a running instance; a timer that was set is running
DeliveryDue == \E p \in Pairs : chan[p] # <<>> /\ Listening(p[2])

TimerDue == \E i \in Instances : Listening(i) /\ st[i].timers > 0

ResignNext ==
    \/ (\E from, to \in Instances : Deliver(from, to)) /\ QueuesBounded'
    \/ (\E i \in Instances : Timer(i)) /\ QueuesBounded'
    \/ Quiet /\ (\E i \in Instances : PermissionGranted(i)) /\ QueuesBounded'
    \/ Quiet /\ (\E i \in Instances : SnapshotChanged(i) /\ TabUpdate(i))
             /\ QueuesBounded'
    \/ (\E i \in Instances : BeforeClose(i)) /\ QueuesBounded'
    \/ Quiet /\ HostApplyRename

\* The host carries out the commands it was given (weak fairness). Timers
\* and deliveries are fair as well; each of their steps consumes a timer or
\* a message and the runs are finite, so their weak fairness is the
\* condition that none stays due forever.
SpecResign ==
    /\ ElectInit
    /\ [][ResignNext]_vars
    /\ WF_vars(Quiet /\ HostApplyRename)
    /\ []<>~DeliveryDue
    /\ []<>~TimerDue

\* C38: after a Leader has resigned, and while another instance that holds
\* its permissions stays alive, eventually some instance is Leader.
C38_LeaderAfterResign ==
    \A i, j \in Instances :
        (i # j /\ IsSome(st[i].g_resigned) /\ st[j].phase = "granted")
        ~> (st[j].phase # "granted" \/ \E k \in Instances : st[k].is_leader)

\* the broadcast-visible fields of the records a Renderer has cached
CacheView(s) == {SerializeTab(r) : r \in s.received_tabs}

\* no broadcast is undelivered and no election is pending
Quiescent == Quiet /\ \A i \in Instances : ~st[i].election_pending

\* C39: at a quiescent point with a Leader, the cache of every running
\* instance that is not Leader holds the broadcast-visible fields of the
\* records of the Leader's canonical map.
C39_CacheMatchesLeader ==
    Quiescent =>
        \A l, j \in Instances :
            (/\ st[l].phase = "granted" /\ st[l].is_leader
             /\ st[j].phase = "granted" /\ ~st[j].is_leader)
            => CacheView(st[j]) = SerializeState(st[l].known_tabs)

\* ------------------------------------------------------------------------
\* The single-instance variant (src/src/lib.rs): one plugin names the tabs
\* in the background. In these runs st is its State, config its Config, and
\* every step is one TabUpdate whose snapshot lists the tabs by position.
\* ------------------------------------------------------------------------

MaxLibTabs == 2

LibPool == <<"alpha", "bravo">>

Decimal == <<"1", "2", "3", "4">>

\* format!("{} <{}>", name, position + 1)
format_tab_name(cfg, name, position) ==
    IF cfg.show_position
    THEN name \o " <" \o Decimal[position + 1] \o ">"
    ELSE name

\* names a tab of these runs shows: default names, a name given by hand,
\* and the names the plugin asks for
LibTabNames(cfg) ==
    {"Tab #1", "Tab #2", "Zeta"}
    \cup {format_tab_name(cfg, LibPool[k], k - 1) : k \in 1..Len(LibPool)}

\* Vec<TabInfo> of a TabUpdate: positions are 0, 1, ...
LibSnapshots(cfg) ==
    UNION {[1..n -> LibTabNames(cfg)] : n \in 0..MaxLibTabs}

\* act is the index of the active tab
TabInfos(names, act) ==
    [k \in 1..Len(names) |-> [position |-> k - 1, name |-> names[k], active |-> k = act]]

\* tabs.iter().position(|t| t.active).unwrap_or(0)
ActiveIdx(tabs) ==
    LET act == {k \in 1..Len(tabs) : tabs[k].active}
    IN  IF act = {} THEN 0 ELSE (CHOOSE k \in act : \A j \in act : k <= j) - 1

\* name.strip_prefix("Tab #") and rest.parse::<u32>().is_ok()
is_default_name(name) == name \in Range(DefaultNameOf)

\* self.config.names.iter().any(|n| n == name)
is_pool_name(cfg, name) == name \in Range(cfg.names)

\* tab.name.strip_prefix("Tab #").and_then(|s| s.parse::<u32>().ok())
stable_index(name) ==
    IF is_default_name(name)
    THEN Some(CHOOSE n \in 1..Len(DefaultNameOf) : DefaultNameOf[n] = name)
    ELSE None

\* fn allocate_name: [name |-> Option name, idx |-> last_assigned_idx after]
allocate_name(s, cfg) ==
    IF cfg.mode = "RoundRobin"
    THEN allocate_round_robin(cfg.names, s.used_names, s.last_assigned_idx)
    ELSE allocate_fill_in(cfg.names, s.used_names, s.last_assigned_idx)

\* State::default() of the variant
LibState ==
    [tabs |-> <<>>, active_tab_idx |-> 0, used_names |-> {}, last_assigned_idx |-> None,
     pending_rename |-> None, g_renames |-> <<>>, g_shown |-> None]

\* tabs.iter().find(|t| t.position == *pos)
TabAt(tabs, pos) ==
    IF pos + 1 \in 1..Len(tabs) THEN Some(tabs[pos + 1]) ELSE None

\* the pending rename is not confirmed by this snapshot: a tab is at the
\* pending position and shows another name
Unconfirmed(pending, tabs) ==
    /\ IsSome(pending)
    /\ IsSome(TabAt(tabs, Unwrap(pending)[1]))
    /\ Unwrap(TabAt(tabs, Unwrap(pending)[1])).name # Unwrap(pending)[2]

\* for tab in &tabs: the tabs that reach allocate_name
NeedsName(cfg, tab) ==
    /\ ~is_pool_name(cfg, tab.name)
    /\ (cfg.rename_custom \/ is_default_name(tab.name))
    /\ IsSome(stable_index(tab.name))

\* process_tabs after the pending rename is settled: used_names from the
\* snapshot, the snapshot stored, and ONE tab needing a name renamed
process_tabs_settled(s, cfg, tabs) ==
    LET s1 == [s EXCEPT
                 !.pending_rename = None,
                 !.used_names = {tabs[k].name : k \in
                                   {j \in 1..Len(tabs) : is_pool_name(cfg, tabs[j].name)}},
                 !.active_tab_idx = ActiveIdx(tabs),
                 !.tabs = tabs,
                 !.g_renames = <<>>]
        cand == {k \in 1..Len(tabs) : NeedsName(cfg, tabs[k])}
        a == allocate_name(s1, cfg)
    IN  IF cand = {} \/ ~IsSome(a.name)
        THEN s1
        ELSE LET tab == tabs[CHOOSE k \in cand : \A j \in cand : k <= j]
                 formatted == format_tab_name(cfg, Unwrap(a.name), tab.position)
             IN  [s1 EXCEPT
                    !.used_names = @ \cup {Unwrap(a.name)},
                    !.last_assigned_idx = a.idx,
                    !.pending_rename = Some(<<tab.position, formatted>>),
                    !.g_renames = <<<<Unwrap(stable_index(tab.name)), formatted>>>>]

\* process_tabs that stores the snapshot although a rename is unconfirmed
process_tabs_storing(s, cfg, tabs) ==
    IF Unconfirmed(s.pending_rename, tabs)
    THEN [s EXCEPT !.tabs = tabs, !.g_renames = <<>>]
    ELSE process_tabs_settled(s, cfg, tabs)

\* fn process_tabs: waiting for the pending rename returns at once
process_tabs(s, cfg, tabs) ==
    IF Unconfirmed(s.pending_rename, tabs)
    THEN [s EXCEPT !.g_renames = <<>>]
    ELSE process_tabs_settled(s, cfg, tabs)

LibInit ==
    /\ alloc = IdleAlloc
    /\ config \in [names : {LibPool}, mode : AllocationModes,
                    show_position : BOOLEAN, rename_custom : BOOLEAN]
    /\ st = LibState
    /\ chan = [p \in Pairs |-> <<>>]
    /\ host = InitHost(1, 1)

\* the name the snapshot shows at the position of the pending rename
ShownAtPending(pending, tabs) ==
    IF IsSome(pending) /\ IsSome(TabAt(tabs, Unwrap(pending)[1]))
    THEN Some(Unwrap(TabAt(tabs, Unwrap(pending)[1])).name)
    ELSE None

\* Event::TabUpdate(tabs) => self.process_tabs(tabs); the last tab is active
LibTabUpdate ==
    /\ \E names \in LibSnapshots(config) :
        LET tabs == TabInfos(names, Len(names))
        IN  st' = [process_tabs(st, config, tabs) EXCEPT
                     !.g_shown = ShownAtPending(st.pending_rename, tabs)]
    /\ UNCHANGED <<alloc, config, chan, host>>

SpecLib == LibInit /\ [][LibTabUpdate]_vars

\* the snapshot of this step leaves the pending rename unconfirmed
LeftUnconfirmed ==
    /\ IsSome(st.pending_rename)
    /\ IsSome(st'.g_shown)
    /\ Unwrap(st'.g_shown) # Unwrap(st.pending_rename)[2]

\* C40: a snapshot issues at most one rename, and a snapshot that leaves
\* the pending rename unconfirmed (a tab is at the pending position and
\* shows another name) issues none and changes neither used_names nor tabs.
C40_OneRenamePerSnapshot ==
    [][/\ Len(st'.g_renames) <= 1
       /\ LeftUnconfirmed
          => /\ st'.g_renames = <<>>
             /\ st'.used_names = st.used_names
             /\ st'.tabs = st.tabs
             /\ st'.active_tab_idx = st.active_tab_idx
             /\ st'.last_assigned_idx = st.last_assigned_idx
             /\ st'.pending_rename = st.pending_rename]_vars

\* a snapshot has left the pending rename unconfirmed and was not stored:
\* the rename is still pending, and the stored tabs show at its position
\* another name than the snapshot did
C40_Witness ==
    /\ IsSome(st.pending_rename)
    /\ st.g_renames = <<>>
    /\ IsSome(st.g_shown)
    /\ Unwrap(st.g_shown) # Unwrap(st.pending_rename)[2]
    /\ ShownAtPending(st.pending_rename, st.tabs) # st.g_shown

====
